---- MODULE Spec2Model ----
(***************************************************************************)
(* Meet-score pipeline of chp-meet-scores: gym-name normalisation          *)
(* (python/core/gym_normalizer.py) and winner determination               *)
(* (python/core/db_builder.py).                                            *)
(*                                                                         *)
(* A Python str is a sequence of one-character strings, so that trimming,  *)
(* case folding, splitting and title-casing are computed character by      *)
(* character as the code computes them.  A Python None / SQL NULL is the   *)
(* empty sequence <<>> and a present number v is <<v>>.  Scores are        *)
(* integers in thousandths of a point (9.5 is 9500).                       *)
(***************************************************************************)
EXTENDS Integers, Sequences, FiniteSets, TLC

VARIABLES
    data_file,      \* the file behind --data: the adapter chosen by --source and the rows
                    \* (array elements, lines, clusters) the adapter reads
    handed,         \* None before the file is parsed; then, for each record of the batch,
                    \* the row it was built from and the cells handed to score and rank
                    \* parsing
    athletes,       \* the batch: list of athlete dicts (normalize mutates gym in place)
    gym_map_file,   \* the file behind --gym-map: [kind |-> "nopath"] or [kind |-> "map", entries |-> ...]
                    \* or a path without a usable map: kind "missing", "invalid", "array"
    gym_report,     \* report of the last normalize call: returned, or as far as it was
                    \* built when the call raised
    phase_gyms,     \* gym column after Phase 1, 2 and 3 of the last normalize call
    before_gyms,    \* gym column handed to the last normalize call
    runs,           \* number of normalize calls made on the batch
    config,         \* MeetConfig of the last build_database call
    db_exists,      \* whether the file at db_path exists
    results,        \* rows of table results in the file at db_path
    winners,        \* rows of table winners in the file at db_path
    db_before,      \* rows of table results as the last build_database call found them
    committed,      \* rows of table results at the commit that follows the inserts of
                    \* the last build_database call, before the winners are built
    builds,         \* number of build_database calls made on the batch
    raised,         \* the exception that escaped the last call, "" when it returned
    state_divisions,\* state_divisions.json: None, or Some(dict state -> division order)
    division_order, \* what the last get_division_order call returned
    detected        \* whether that call ran detect_division_order

vars == <<data_file, handed, athletes, gym_map_file, gym_report, phase_gyms, before_gyms, runs,
          config, db_exists, results, winners, db_before, committed, builds, raised,
          state_divisions, division_order, detected>>

----------------------------------------------------------------------------
(* Bounds of the model *)

\* largest batch of spelling variants handed to normalize in SpecNorm
MaxRecords == 3
\* largest batch of suffixed names handed to normalize in SpecNorm
MaxSuffixRecords == 4
\* largest batch of near-duplicate names handed to normalize in SpecNorm
MaxFuzzyRecords == 3
\* largest batch handed to build_database in SpecWin
MaxAthletes == 3
\* normalize calls made on one batch (the second is the re-run on its own output)
MaxRuns == 2
\* largest batch of division labels handed to build_database in SpecDiv
MaxDivisionRecords == 3

----------------------------------------------------------------------------
(* Python str primitives *)

None == <<>>
Some(v) == <<v>>

UpperChars == <<"A","B","C","D","E","F","G","H","I","J","K","L","M",
                "N","O","P","Q","R","S","T","U","V","W","X","Y","Z">>
LowerChars == <<"a","b","c","d","e","f","g","h","i","j","k","l","m",
                "n","o","p","q","r","s","t","u","v","w","x","y","z">>

IsUpperChar(c) == \E i \in 1..26 : UpperChars[i] = c
IsLowerChar(c) == \E i \in 1..26 : LowerChars[i] = c

\* str.lower() on one character
LowerChar(c) ==
    IF IsUpperChar(c) THEN LowerChars[CHOOSE i \in 1..26 : UpperChars[i] = c] ELSE c

\* str.upper() on one character
UpperChar(c) ==
    IF IsLowerChar(c) THEN UpperChars[CHOOSE i \in 1..26 : LowerChars[i] = c] ELSE c

\* the characters matched by \s and removed by str.strip()
IsSpace(c) == c \in {" ", "\t"}

\* s.lower()
Lower(s) == [i \in 1..Len(s) |-> LowerChar(s[i])]

RECURSIVE LStrip(_)
LStrip(s) == IF s # <<>> /\ IsSpace(Head(s)) THEN LStrip(Tail(s)) ELSE s

RECURSIVE RStrip(_)
RStrip(s) ==
    IF s # <<>> /\ IsSpace(s[Len(s)]) THEN RStrip(SubSeq(s, 1, Len(s) - 1)) ELSE s

\* s.strip()
Strip(s) == RStrip(LStrip(s))

\* s.replace('-', ' ')
ReplaceHyphen(s) == [i \in 1..Len(s) |-> IF s[i] = "-" THEN " " ELSE s[i]]

\* re.sub(r'\s+', ' ', s): every maximal run of whitespace becomes one space
RECURSIVE CollapseWs(_)
CollapseWs(s) ==
    IF s = <<>> THEN <<>>
    ELSE IF IsSpace(Head(s))
         THEN <<" ">> \o CollapseWs(LStrip(s))
         ELSE <<Head(s)>> \o CollapseWs(Tail(s))

\* s.split(c): split at every occurrence of c, empty pieces kept
RECURSIVE SplitChar(_, _)
SplitChar(s, c) ==
    IF \A i \in 1..Len(s) : s[i] # c THEN <<s>>
    ELSE LET k == CHOOSE i \in 1..Len(s) : s[i] = c /\ \A j \in 1..(i - 1) : s[j] # c
         IN  <<SubSeq(s, 1, k - 1)>> \o SplitChar(SubSeq(s, k + 1, Len(s)), c)

\* s.split(): split at runs of whitespace, no empty pieces
RECURSIVE SplitWs(_)
SplitWs(s) ==
    LET t == LStrip(s)
    IN  IF t = <<>> THEN <<>>
        ELSE IF \A i \in 1..Len(t) : ~IsSpace(t[i]) THEN <<t>>
        ELSE LET k == CHOOSE i \in 1..Len(t) :
                          IsSpace(t[i]) /\ \A j \in 1..(i - 1) : ~IsSpace(t[j])
             IN  <<SubSeq(t, 1, k - 1)>> \o SplitWs(SubSeq(t, k + 1, Len(t)))

\* sep.join(parts)
RECURSIVE Join(_, _)
Join(parts, sep) ==
    IF parts = <<>> THEN <<>>
    ELSE IF Len(parts) = 1 THEN parts[1]
    ELSE parts[1] \o sep \o Join(Tail(parts), sep)

\* word.isupper(): at least one cased character and no lowercase one
IsUpper(word) ==
    /\ \E i \in 1..Len(word) : IsUpperChar(word[i])
    /\ \A i \in 1..Len(word) : ~IsLowerChar(word[i])

\* word.capitalize()
Capitalize(word) ==
    [i \in 1..Len(word) |-> IF i = 1 THEN UpperChar(word[i]) ELSE LowerChar(word[i])]

----------------------------------------------------------------------------
(* gym_normalizer.py *)

\* _MERGE_SUFFIXES
MERGE_SUFFIXES == {
    <<"g","y","m","n","a","s","t","i","c","s">>,
    <<"g","y","m">>,
    <<"g","y","m","n","a","s","t","i","c">>,
    <<"a","c","a","d","e","m","y">>,
    <<"a","t","h","l","e","t","i","c","s">>,
    <<"c","e","n","t","e","r">>,
    <<"c","e","n","t","r","e">>,
    <<"c","l","u","b">>,
    <<"t","r","a","i","n","i","n","g">>,
    <<"t","u","m","b","l","i","n","g">>,
    <<"c","h","e","e","r">> }

\* _title_case_word
RECURSIVE TitleCaseWord(_)
TitleCaseWord(word) ==
    IF \E i \in 1..Len(word) : word[i] = "-"
    THEN LET parts == SplitChar(word, "-")
         IN  Join([i \in 1..Len(parts) |-> TitleCaseWord(parts[i])], <<"-">>)
    ELSE IF IsUpper(word) /\ 2 <= Len(word) /\ Len(word) <= 4 THEN word
    ELSE Capitalize(word)

\* _title_case_gym
TitleCaseGym(name) ==
    LET n == CollapseWs(Strip(name))
    IN  IF n = <<>> THEN n
        ELSE LET words == SplitChar(n, " ")
             IN  Join([i \in 1..Len(words) |-> TitleCaseWord(words[i])], <<" ">>)

\* a dict is a function; d[k] = v adds or overwrites one key
EmptyDict == [k \in {} |-> k]
Put(d, k, v) == [x \in (DOMAIN d) \cup {k} |-> IF x = k THEN v ELSE d[x]]

\* the gym column of a batch
Gyms(batch) == [i \in 1..Len(batch) |-> batch[i].gym]

\* Phase 1 grouping key: strip, lower, hyphens to spaces, whitespace collapsed
NormKey(gym) == CollapseWs(ReplaceHyphen(Lower(Strip(gym))))

\* gym_counts: key -> {stripped original spelling -> number of athletes}
GymCounts(gs) ==
    LET keys == {NormKey(gs[i]) : i \in 1..Len(gs)} \ {<<>>}
    IN  [key \in keys |->
            LET variants == {Strip(gs[i]) : i \in {j \in 1..Len(gs) : NormKey(gs[j]) = key}}
            IN  [v \in variants |-> Cardinality({i \in 1..Len(gs) : Strip(gs[i]) = v})]]

\* position at which the loop over the athletes inserted spelling v into its dict
FirstSeen(gs, v) == CHOOSE i \in 1..Len(gs) :
                        Strip(gs[i]) = v /\ \A j \in 1..(i - 1) : Strip(gs[j]) # v

\* max(variants, key=count): the first spelling in insertion order with the largest count
\* a faulty Phase 1 that takes the spelling met first, whatever the counts
MostCommonFirstMet(gs, variants) ==
    CHOOSE v \in DOMAIN variants : \A w \in DOMAIN variants :
        FirstSeen(gs, v) <= FirstSeen(gs, w)

MostCommon(gs, variants) ==
    CHOOSE v \in DOMAIN variants : \A w \in DOMAIN variants :
        \/ variants[v] > variants[w]
        \/ variants[v] = variants[w] /\ FirstSeen(gs, v) <= FirstSeen(gs, w)

\* the canonical form picked for one key group
CanonicalOf(gs, variants) ==
    IF Cardinality(DOMAIN variants) = 1
    THEN TitleCaseGym(CHOOSE v \in DOMAIN variants : TRUE)
    ELSE TitleCaseGym(MostCommon(gs, variants))

\* canonical_map: any stripped original spelling -> canonical form
CanonicalMap(gs) ==
    LET counts == GymCounts(gs)
        all    == UNION {DOMAIN counts[key] : key \in DOMAIN counts}
    IN  [v \in all |-> CanonicalOf(gs, counts[NormKey(v)])]

\* Phase 1: the rewritten gym column and auto_merged (self-mappings removed)
Phase1(gs) ==
    LET cmap == CanonicalMap(gs)
    IN  [gyms |-> [i \in 1..Len(gs) |->
                      IF Strip(gs[i]) \in DOMAIN cmap THEN cmap[Strip(gs[i])] ELSE gs[i]],
         auto_merged |-> [v \in {w \in DOMAIN cmap : w # cmap[w]} |-> cmap[v]]]

\* set(a.get('gym', '') for a in athletes if a.get('gym'))
UniqueGyms(gs) == {gs[i] : i \in 1..Len(gs)} \ {<<>>}

\* a name of two or more words whose last word is a merge suffix
IsSuffixed(gym) ==
    LET words == SplitWs(gym)
    IN  Len(words) >= 2 /\ Lower(words[Len(words)]) \in MERGE_SUFFIXES

\* ' '.join(words[:-1])
BaseOf(gym) ==
    LET words == SplitWs(gym)
    IN  Join(SubSeq(words, 1, Len(words) - 1), <<" ">>)

\* base_to_suffixed: base name -> its suffixed variants
BaseToSuffixed(unique) ==
    LET suffixed == {g \in unique : IsSuffixed(g)}
    IN  [base \in {BaseOf(g) : g \in suffixed} |-> {g \in suffixed : BaseOf(g) = base}]

\* max(gym_athlete_counts, key=count): the suffixed form with the most athletes,
\* the one met first in the batch among equals
BestSuffixed(gs, forms) ==
    LET cnt(g)   == Cardinality({i \in 1..Len(gs) : gs[i] = g})
        first(g) == CHOOSE i \in 1..Len(gs) : gs[i] = g /\ \A j \in 1..(i - 1) : gs[j] # g
    IN  CHOOSE g \in forms : \A h \in forms :
            \/ cnt(g) > cnt(h)
            \/ cnt(g) = cnt(h) /\ first(g) <= first(h)

\* a faulty Phase 2 in which a lone suffixed form wins only when it has at least as
\* many athletes as its base, and is merged into the base otherwise
MergeBaseLargerWins(gs, unique, base, forms, map) ==
    LET cnt(g) == Cardinality({i \in 1..Len(gs) : gs[i] = g})
        only   == CHOOSE g \in forms : TRUE
    IN  IF base \notin unique THEN map
        ELSE IF Cardinality(forms) = 1
             THEN (IF cnt(base) > cnt(only) THEN Put(map, only, base) ELSE Put(map, base, only))
             ELSE LET best == BestSuffixed(gs, forms)
                  IN  [x \in (DOMAIN map) \cup {base} \cup (forms \ {best}) |->
                          IF x = base \/ x \in (forms \ {best}) THEN best ELSE map[x]]

\* one iteration of the loop over base_to_suffixed.items()
MergeBase(gs, unique, base, forms, map) ==
    IF base \notin unique THEN map
    ELSE IF Cardinality(forms) = 1
         THEN Put(map, base, CHOOSE g \in forms : TRUE)
         ELSE LET best == BestSuffixed(gs, forms)
              IN  [x \in (DOMAIN map) \cup {base} \cup (forms \ {best}) |->
                      IF x = base \/ x \in (forms \ {best}) THEN best ELSE map[x]]

\* suffix_merge_map after the loop has visited the bases in the given order
RECURSIVE SuffixMergeMap(_, _, _, _, _)
SuffixMergeMap(gs, unique, b2s, order, map) ==
    IF order = <<>> THEN map
    ELSE SuffixMergeMap(gs, unique, b2s, Tail(order),
                        MergeBase(gs, unique, Head(order), b2s[Head(order)], map))

\* the orders in which a set or dict of str keys can be iterated (hash order)
IterationOrders(S) ==
    {f \in [1..Cardinality(S) -> S] : \A i, j \in 1..Cardinality(S) : i # j => f[i] # f[j]}

\* Phase 2: the rewritten gym column and suffix_merged
Phase2(gs, order) ==
    LET unique == UniqueGyms(gs)
        map    == SuffixMergeMap(gs, unique, BaseToSuffixed(unique), order, EmptyDict)
    IN  [gyms |-> [i \in 1..Len(gs) |-> IF gs[i] \in DOMAIN map THEN map[gs[i]] ELSE gs[i]],
         suffix_merged |-> map]

\* gym_map_lower: the value of the last entry whose lowered, stripped key is key
GymMapLower(entries) ==
    LET keys == {Strip(Lower(entries[i][1])) : i \in 1..Len(entries)}
    IN  [key \in keys |->
            LET last == CHOOSE i \in 1..Len(entries) :
                            /\ Strip(Lower(entries[i][1])) = key
                            /\ \A j \in (i + 1)..Len(entries) : Strip(Lower(entries[j][1])) # key
            IN  entries[last][2]]

\* the characters of the model in code point order (the order of str comparison)
CodePoints == <<"\t", " ", "-", ".">> \o <<"0","1","2","3","4","5","6","7","8","9">>
                  \o UpperChars \o LowerChars

CodePoint(c) == CHOOSE i \in 1..Len(CodePoints) : CodePoints[i] = c

\* a < b for two str
StrLess(a, b) ==
    \E k \in 1..(Len(b)) :
        /\ k <= Len(a) + 1
        /\ \A d \in 1..(k - 1) : a[d] = b[d]
        /\ \/ k = Len(a) + 1
           \/ k <= Len(a) /\ CodePoint(a[k]) < CodePoint(b[k])

\* the largest element of a non-empty set of numbers
Max(S) == CHOOSE m \in S : \A x \in S : x <= m

\* sorted(S) for a set of str: position k holds the name with k - 1 smaller ones
SortedStrs(S) ==
    [k \in 1..Cardinality(S) |->
        CHOOSE g \in S : Cardinality({h \in S : StrLess(h, g)}) = k - 1]

\* length of the common run of a from i and b from j, inside a[..ahi] and b[..bhi]
RunLength(a, b, i, j, ahi, bhi) ==
    LET room == IF ahi - i < bhi - j THEN ahi - i + 1 ELSE bhi - j + 1
    IN  CHOOSE k \in 0..room :
            /\ \A d \in 0..(k - 1) : a[i + d] = b[j + d]
            /\ k < room => a[i + k] # b[j + k]

\* SequenceMatcher.find_longest_match without junk: the longest common block of
\* a[alo..ahi] and b[blo..bhi], the one starting earliest in a, then earliest in b
FindLongestMatch(a, b, alo, ahi, blo, bhi) ==
    LET starts == (alo..ahi) \X (blo..bhi)
        first(run) ==
            LET k == Max({run[p] : p \in starts})
            IN  CHOOSE m \in {<<p[1], p[2], k>> : p \in {q \in starts : run[q] = k}} :
                    \A q \in starts :
                        run[q] = k => m[1] < q[1] \/ (m[1] = q[1] /\ m[2] <= q[2])
    IN  IF starts = {} THEN <<alo, blo, 0>>
        ELSE CHOOSE m \in
                 {first(run) :
                     run \in {[p \in starts |-> RunLength(a, b, p[1], p[2], ahi, bhi)]}} :
                 TRUE

\* SequenceMatcher.get_matching_blocks: total size of the matching blocks
RECURSIVE MatchingSize(_, _, _, _, _, _)
MatchingSize(a, b, alo, ahi, blo, bhi) ==
    CHOOSE size \in
        {IF m[3] = 0 THEN 0
         ELSE m[3] + MatchingSize(a, b, alo, m[1] - 1, blo, m[2] - 1)
                   + MatchingSize(a, b, m[1] + m[3], ahi, m[2] + m[3], bhi) :
            m \in {FindLongestMatch(a, b, alo, ahi, blo, bhi)}} : TRUE

\* SequenceMatcher(None, a, b).ratio() = 2.0 * matches / (len(a) + len(b)), kept as
\* the pair <<2 * matches, len(a) + len(b)>>
Ratio(a, b) == <<2 * MatchingSize(a, b, 1, Len(a), 1, Len(b)), Len(a) + Len(b)>>

\* ratio > 0.80
AboveThreshold(r) == r[2] > 0 /\ 5 * r[1] > 4 * r[2]

\* round(ratio, 2) in hundredths; a ratio half way between two hundredths is an
\* eighth for names this short, a float that is exact, and goes to the even side
RoundHundredths(r) ==
    LET q   == (100 * r[1]) \div r[2]
        rem == (100 * r[1]) % r[2]
    IN  IF 2 * rem > r[2] \/ (2 * rem = r[2] /\ q % 2 = 1) THEN q + 1 ELSE q

\* above this number of distinct gyms Phase 3 compares nothing
FuzzyCutoff == 500

\* the entry appended for g1 and g2, if any: (g1, g2, round(ratio, 2)) when the
\* ratio of the lowered names is above 0.80
DuplicateEntry(g1, g2) ==
    CHOOSE rows \in
        {IF AboveThreshold(r) /\ g1 # g2 THEN << <<g1, g2, RoundHundredths(r)>> >> ELSE <<>> :
            r \in {Ratio(Lower(g1), Lower(g2))}} : TRUE

\* the loops over i and j > i of the sorted names, from the pair (i, j) on
RECURSIVE DuplicateEntries(_, _, _)
DuplicateEntries(sorted, i, j) ==
    IF i >= Len(sorted) THEN <<>>
    ELSE IF j > Len(sorted) THEN DuplicateEntries(sorted, i + 1, i + 2)
    ELSE DuplicateEntry(sorted[i], sorted[j]) \o DuplicateEntries(sorted, i, j + 1)

\* potential_duplicates: the pairs of sorted(unique_gyms) with ratio > 0.80, as
\* (g1, g2, round(ratio, 2))
PotentialDuplicates(gs) ==
    CHOOSE found \in
        {IF Len(sorted) <= FuzzyCutoff THEN DuplicateEntries(sorted, 1, 2) ELSE <<>> :
            sorted \in {SortedStrs(UniqueGyms(gs))}} : TRUE

\* a faulty Phase 3 that acts on what it finds: the second name of every reported
\* pair is rewritten to the first
Phase3MergesPairs(gs) ==
    LET found == PotentialDuplicates(gs)
    IN  [gyms |-> [i \in 1..Len(gs) |->
                      IF \E k \in 1..Len(found) : found[k][2] = gs[i]
                      THEN found[CHOOSE k \in 1..Len(found) : found[k][2] = gs[i]][1]
                      ELSE gs[i]],
         potential_duplicates |-> found]

\* Phase 3: the gym column, which it leaves alone, and potential_duplicates
Phase3(gs) == [gyms |-> gs, potential_duplicates |-> PotentialDuplicates(gs)]

\* a faulty Phase 4 that looks the gym up without lowering it
Phase4CaseSensitive(gs, file) ==
    IF file.kind = "map"
    THEN LET lookup == GymMapLower(file.entries)
         IN  [i \in 1..Len(gs) |->
                 IF Strip(gs[i]) \in DOMAIN lookup THEN lookup[Strip(gs[i])] ELSE gs[i]]
    ELSE gs

\* Phase 4: the gym column after the alias map has been applied
Phase4(gs, file) ==
    IF file.kind = "map"
    THEN LET lookup == GymMapLower(file.entries)
         IN  [i \in 1..Len(gs) |->
                 IF Strip(Lower(gs[i])) \in DOMAIN lookup
                 THEN lookup[Strip(Lower(gs[i]))] ELSE gs[i]]
    ELSE gs

\* the exception Phase 4 lets escape: json.load returned a value that is not an
\* object, and gym_map.items() raises AttributeError, which no except clause names;
\* a missing file and text that is not JSON are caught
Phase4Raises(file) == IF file.kind = "array" THEN "AttributeError" ELSE ""

\* normalize(athletes, gym_map_path), with the hash order of Phase 2 as an input:
\* the gym columns after each phase, the report, and the exception that escaped;
\* when Phase 4 raises, the batch (rewritten in place) and unique_gyms stay as
\* Phases 2 and 3 left them and nothing is returned
NormalizeResult(gs, file, order) ==
    LET returned(p1, p2, p3, p4) ==
            [p1 |-> p1.gyms, p2 |-> p2.gyms, p3 |-> p3.gyms, gyms |-> p4,
             raised |-> Phase4Raises(file),
             report |-> [unique_gyms   |-> UniqueGyms(p4),
                         auto_merged   |-> p1.auto_merged,
                         suffix_merged |-> p2.suffix_merged,
                         potential_duplicates |-> p3.potential_duplicates]]
        phase4(p1, p2, p3) ==
            {returned(p1, p2, p3, p4) :
                p4 \in {IF Phase4Raises(file) = "" THEN Phase4(p3.gyms, file) ELSE p3.gyms}}
        phase3(p1, p2) == UNION {phase4(p1, p2, p3) : p3 \in {Phase3(p2.gyms)}}
        phase2(p1)     == UNION {phase3(p1, p2) : p2 \in {Phase2(p1.gyms, order)}}
    IN  CHOOSE r \in UNION {phase2(p1) : p1 \in {Phase1(gs)}} : TRUE

\* the bases Phase 2 iterates over for a batch
Phase2Bases(gs) == DOMAIN BaseToSuffixed(UniqueGyms(Phase1(gs).gyms))

----------------------------------------------------------------------------
(* adapters/scorecat_adapter.py: the values an adapter puts into an athlete dict *)

\* a JSON value of the export: null, a number, or a string
JNull == [t |-> "null"]
JNum(n) == [t |-> "num", v |-> n]
JStr(chars) == [t |-> "str", s |-> chars]
JBool(b) == [t |-> "bool", b |-> b]

Digits == <<"0","1","2","3","4","5","6","7","8","9">>
IsDigit(c) == \E d \in 1..10 : Digits[d] = c
DigitVal(c) == (CHOOSE d \in 1..10 : Digits[d] = c) - 1

\* value of a non-empty run of decimal digits
RECURSIVE DigitsVal(_)
DigitsVal(ds) ==
    IF ds = <<>> THEN 0 ELSE DigitsVal(SubSeq(ds, 1, Len(ds) - 1)) * 10 + DigitVal(ds[Len(ds)])

AllDigits(ds) == \A i \in 1..Len(ds) : IsDigit(ds[i])

\* int(s): None on ValueError
IntOf(str) ==
    LET s    == Strip(str)
        neg  == s # <<>> /\ s[1] = "-"
        body == IF s # <<>> /\ s[1] \in {"-", "+"} THEN Tail(s) ELSE s
    IN  IF body = <<>> \/ ~AllDigits(body) THEN None
        ELSE Some(IF neg THEN 0 - DigitsVal(body) ELSE DigitsVal(body))

\* float(s) in thousandths, for decimal notation with up to three fraction digits:
\* None on ValueError
FloatOf(str) ==
    LET s     == Strip(str)
        neg   == s # <<>> /\ s[1] = "-"
        body  == IF s # <<>> /\ s[1] \in {"-", "+"} THEN Tail(s) ELSE s
        parts == SplitChar(body, ".")
        int   == parts[1]
        frac  == IF Len(parts) = 2 THEN parts[2] ELSE <<>>
        pad   == frac \o SubSeq(<<"0","0","0">>, 1, 3 - Len(frac))
        mag   == DigitsVal(int) * 1000 + DigitsVal(pad)
    IN  IF \/ Len(parts) > 2
           \/ int = <<>> /\ frac = <<>>
           \/ ~AllDigits(int) \/ ~AllDigits(frac) \/ Len(frac) > 3
        THEN None
        ELSE Some(IF neg THEN 0 - mag ELSE mag)

\* the literals ScoreCatAdapter._parse_score rejects before float()
ZeroLiterals == { <<"n","a","n">>, <<"n","u","l","l">>, <<"0">>, <<"0",".","0">>,
                  <<"0",".","0","0","0">> }

\* a faulty _parse_score that keeps a numeric 0 as a score
ParseScoreKeepZero(val) ==
    IF val.t = "null" THEN None
    ELSE IF val.t = "bool" THEN (IF val.b THEN Some(1000) ELSE None)
    ELSE IF val.t = "num" THEN (IF val.v >= 0 THEN Some(val.v) ELSE None)
    ELSE LET s == Strip(val.s)
             v == FloatOf(s)
         IN  IF s = <<>> THEN None
             ELSE IF v # None /\ v[1] >= 0 THEN v ELSE None

\* ScoreCatAdapter._parse_score; a JSON true or false is an int to isinstance, and
\* float(True) is 1.0
ParseScore(val) ==
    IF val.t = "null" THEN None
    ELSE IF val.t = "bool" THEN (IF val.b THEN Some(1000) ELSE None)
    ELSE IF val.t = "num" THEN (IF val.v > 0 THEN Some(val.v) ELSE None)
    ELSE LET s == Strip(val.s)
             v == FloatOf(s)
         IN  IF s = <<>> \/ Lower(s) \in ZeroLiterals THEN None
             ELSE IF v # None /\ v[1] > 0 THEN v ELSE None

\* re.sub(r'[Tt]$', '', s)
DropTieMarker(s) ==
    IF s # <<>> /\ s[Len(s)] \in {"T", "t"} THEN SubSeq(s, 1, Len(s) - 1) ELSE s

\* a faulty _parse_rank that hands the text to int() with its tie marker
ParseRankWithTieMarker(val) ==
    IF val.t = "null" THEN None
    ELSE IF val.t = "bool" THEN Some(IF val.b THEN 1 ELSE 0)
    ELSE IF val.t = "num" THEN Some(val.v)
    ELSE LET s == Strip(val.s)
         IN  IF s = <<>> THEN None ELSE IntOf(s)

\* ScoreCatAdapter._parse_rank; a JSON true or false is returned as it is (True == 1)
ParseRank(val) ==
    IF val.t = "null" THEN None
    ELSE IF val.t = "bool" THEN Some(IF val.b THEN 1 ELSE 0)
    ELSE IF val.t = "num" THEN Some(val.v)
    ELSE LET s == Strip(val.s)
         IN  IF s = <<>> THEN None ELSE IntOf(DropTieMarker(s))

\* str(n) for an integer n
RECURSIVE NatToStr(_)
NatToStr(n) == IF n < 10 THEN <<Digits[n + 1]>> ELSE NatToStr(n \div 10) \o <<Digits[(n % 10) + 1]>>
IntToStr(n) == IF n < 0 THEN <<"-">> \o NatToStr(0 - n) ELSE NatToStr(n)

\* the athlete dict ScoreCatAdapter._extract_athlete returns for one export row
ExtractAthlete(raw) ==
    [name       |-> raw.name,
     gym        |-> Strip(raw.gym),
     session    |-> raw.session,
     level      |-> raw.level,
     division   |-> raw.division,
     vault      |-> ParseScore(raw.vt),
     bars       |-> ParseScore(raw.ub),
     beam       |-> ParseScore(raw.bb),
     floor      |-> ParseScore(raw.fx),
     aa         |-> ParseScore(raw.aa),
     rank       |-> LET r == ParseRank(raw.aaPlace)
                    IN  IF r = None THEN <<>> ELSE IntToStr(r[1]),
     num        |-> "",
     vault_rank |-> ParseRank(raw.vtRank),
     bars_rank  |-> ParseRank(raw.ubRank),
     beam_rank  |-> ParseRank(raw.bbRank),
     floor_rank |-> ParseRank(raw.fxRank),
     aa_rank    |-> ParseRank(raw.aaPlace)]

----------------------------------------------------------------------------
(* core/db_builder.py *)

EVENTS == <<"vault", "bars", "beam", "floor", "aa">>

\* rank_cols
rank_cols == [vault |-> "vault_rank", bars |-> "bars_rank", beam |-> "beam_rank",
              floor |-> "floor_rank", aa |-> "aa_rank"]

\* the concatenation of a sequence of sequences
RECURSIVE Concat(_)
Concat(seqs) == IF seqs = <<>> THEN <<>> ELSE Head(seqs) \o Concat(Tail(seqs))

\* the indices 1..n that satisfy P, ascending (a table scan in rowid order)
Scan(n, P(_)) == SelectSeq([i \in 1..n |-> i], P)

\* a faulty build_database that leaves the file at db_path in place
OsRemoveKeepsFile(db) == db

\* if os.path.exists(db_path): os.remove(db_path): the file and its tables are gone
OsRemove(db) == [exists |-> FALSE, results |-> <<>>, winners |-> <<>>]

\* the table after the INSERT INTO results statements
InsertResults(table, rows) == table \o rows

\* a faulty insert loop that skips a record whose name, gym, session, level and
\* division an earlier record of the batch has
ResultsRowsOncePerIdentity(cfg, batch) ==
    LET identity(a) == <<a.name, a.gym, a.session, a.level, a.division>>
        kept == SelectSeq([i \in 1..Len(batch) |-> i],
                          LAMBDA i : \A j \in 1..(i - 1) : identity(batch[j]) # identity(batch[i]))
    IN  [k \in 1..Len(kept) |->
            [state |-> cfg.state, meet_name |-> cfg.meet_name, association |-> cfg.association,
             name |-> batch[kept[k]].name, gym |-> batch[kept[k]].gym,
             session |-> batch[kept[k]].session, level |-> batch[kept[k]].level,
             division |-> batch[kept[k]].division,
             vault |-> batch[kept[k]].vault, bars |-> batch[kept[k]].bars,
             beam |-> batch[kept[k]].beam, floor |-> batch[kept[k]].floor,
             aa |-> batch[kept[k]].aa, rank |-> batch[kept[k]].rank, num |-> batch[kept[k]].num]]

\* the rows the INSERT INTO results statements add: one per athlete dict, in list order
ResultsRows(cfg, batch) ==
    [i \in 1..Len(batch) |->
        [state |-> cfg.state, meet_name |-> cfg.meet_name, association |-> cfg.association,
         name |-> batch[i].name, gym |-> batch[i].gym, session |-> batch[i].session,
         level |-> batch[i].level, division |-> batch[i].division,
         vault |-> batch[i].vault, bars |-> batch[i].bars, beam |-> batch[i].beam,
         floor |-> batch[i].floor, aa |-> batch[i].aa,
         rank |-> batch[i].rank, num |-> batch[i].num]]

\* INSERT INTO rank_lookup: one row per athlete dict, in list order
RankLookupRows(batch) ==
    [i \in 1..Len(batch) |->
        [name |-> batch[i].name, gym |-> batch[i].gym, session |-> batch[i].session,
         level |-> batch[i].level, division |-> batch[i].division,
         vault_rank |-> batch[i].vault_rank, bars_rank |-> batch[i].bars_rank,
         beam_rank |-> batch[i].beam_rank, floor_rank |-> batch[i].floor_rank,
         aa_rank |-> batch[i].aa_rank]]

\* binary collation of the partition labels the model uses, and CAST(level AS INTEGER)
Collation == <<"", "3", "4", "CH B", "JR", "Junior", "Open", "Open A", "S1", "S2", "SR", "SR A",
               "Senior", "Sr.D", "Youth", "sr">>
CollateIdx(label) == CHOOSE k \in 1..Len(Collation) : Collation[k] = label
LevelAsInteger(level) == IF level = "3" THEN 3 ELSE IF level = "4" THEN 4 ELSE 0

\* lexicographic comparison of two key tuples of numbers
RECURSIVE KeyLess(_, _)
KeyLess(a, b) ==
    IF a = <<>> THEN FALSE
    ELSE Head(a) < Head(b) \/ (Head(a) = Head(b) /\ KeyLess(Tail(a), Tail(b)))

\* the elements of S as a sequence ascending in key (keys distinct on S)
SortBy(S, key(_)) ==
    CHOOSE f \in [1..Cardinality(S) -> S] :
        \A i, j \in 1..Cardinality(S) : i < j => KeyLess(key(f[i]), key(f[j]))

\* SELECT DISTINCT session, level, division FROM results WHERE meet_name = ?
DistinctCombos(res, meet) ==
    {<<res[i].session, res[i].level, res[i].division>> :
        i \in {j \in 1..Len(res) : res[j].meet_name = meet}}

\* ... ORDER BY level, division, session
CombosScoreBased(res, meet) ==
    SortBy(DistinctCombos(res, meet),
           LAMBDA c : <<CollateIdx(c[2]), CollateIdx(c[3]), CollateIdx(c[1])>>)

\* ... ORDER BY CAST(level AS INTEGER), division, session
CombosRankBased(res, meet) ==
    SortBy(DistinctCombos(res, meet),
           LAMBDA c : <<LevelAsInteger(c[2]), CollateIdx(c[3]), CollateIdx(c[1]), CollateIdx(c[2])>>)

\* WHERE meet_name = ? AND session = ? AND level = ? AND division = ?
InCombo(row, meet, combo) ==
    /\ row.meet_name = meet
    /\ row.session = combo[1] /\ row.level = combo[2] /\ row.division = combo[3]

\* one INSERT INTO winners
WinnerRow(cfg, name, gym, combo, event, score, is_tie) ==
    [state |-> cfg.state, meet_name |-> cfg.meet_name, association |-> cfg.association,
     name |-> name, gym |-> gym,
     session |-> combo[1], level |-> combo[2], division |-> combo[3],
     event |-> event, score |-> score, is_tie |-> is_tie]

\* a faulty MAX query that forgets the session, level and division of the combo
MaxScoreAnyPartition(res, meet, combo, event) ==
    LET scores == {res[i][event][1] :
                      i \in {j \in 1..Len(res) : res[j].meet_name = meet /\ res[j][event] # None}}
    IN  IF scores = {} THEN None ELSE Some(Max(scores))

\* SELECT MAX(event) ... AND event IS NOT NULL: None when no row qualifies
MaxScore(res, meet, combo, event) ==
    LET scores == {res[i][event][1] :
                      i \in {j \in 1..Len(res) : InCombo(res[j], meet, combo)
                                                  /\ res[j][event] # None}}
    IN  IF scores = {} THEN None ELSE Some(Max(scores))

\* SELECT MAX(event) ... AND event IS NOT NULL AND event > 0
MaxPositiveScore(res, meet, combo, event) ==
    LET scores == {res[i][event][1] :
                      i \in {j \in 1..Len(res) : /\ InCombo(res[j], meet, combo)
                                                  /\ res[j][event] # None
                                                  /\ res[j][event][1] > 0}}
    IN  IF scores = {} THEN None ELSE Some(Max(scores))

\* a faulty query for the holders of a score that forgets the session, level and
\* division of the combo
RowsWithScoreAnyPartition(res, meet, combo, event, score) ==
    Scan(Len(res), LAMBDA i : res[i].meet_name = meet /\ res[i][event] = score)

\* SELECT ... FROM results WHERE <combo> AND event = ?  (row positions, rowid order)
RowsWithScore(res, meet, combo, event, score) ==
    Scan(Len(res), LAMBDA i : InCombo(res[i], meet, combo) /\ res[i][event] = score)

\* is_tie = 1 if len(winners) > 1 else 0
IsTie(rows) == IF Len(rows) > 1 THEN 1 ELSE 0

\* _build_winners_score_based: the winner rows of one combo and event
ScoreBasedEvent(res, cfg, combo, event) ==
    LET max_score == MaxScore(res, cfg.meet_name, combo, event)
    IN  IF max_score = None THEN <<>>
        ELSE LET found == RowsWithScore(res, cfg.meet_name, combo, event, max_score)
             IN  [k \in 1..Len(found) |->
                     WinnerRow(cfg, res[found[k]].name, res[found[k]].gym, combo, event,
                               max_score, IsTie(found))]

\* a faulty rank-1 query that selects the rank in the place of the score
Rank1AthletesWithRank(res, rl, meet, combo, event) ==
    LET joined(i) ==
            Scan(Len(rl), LAMBDA j :
                /\ res[i].name = rl[j].name /\ res[i].gym = rl[j].gym
                /\ res[i].session = rl[j].session /\ res[i].level = rl[j].level
                /\ res[i].division = rl[j].division
                /\ InCombo(res[i], meet, combo)
                /\ rl[j][rank_cols[event]] = Some(1)
                /\ res[i][event] # None /\ res[i][event][1] > 0)
    IN  Concat([i \in 1..Len(res) |->
                   [k \in 1..Len(joined(i)) |->
                       <<res[i].name, res[i].gym, rl[joined(i)[k]][rank_cols[event]]>>]])

\* the rank-1 query: results r JOIN rank_lookup rl ON name, gym, session, level,
\* division WHERE <combo> AND rl.rank_col = 1 AND r.event IS NOT NULL AND r.event > 0;
\* every matching pair (r, rl) is one row <<name, gym, score>>
Rank1Athletes(res, rl, meet, combo, event) ==
    LET joined(i) ==
            Scan(Len(rl), LAMBDA j :
                /\ res[i].name = rl[j].name /\ res[i].gym = rl[j].gym
                /\ res[i].session = rl[j].session /\ res[i].level = rl[j].level
                /\ res[i].division = rl[j].division
                /\ InCombo(res[i], meet, combo)
                /\ rl[j][rank_cols[event]] = Some(1)
                /\ res[i][event] # None /\ res[i][event][1] > 0)
    IN  Concat([i \in 1..Len(res) |->
                   [k \in 1..Len(joined(i)) |-> <<res[i].name, res[i].gym, res[i][event]>>]])

\* _build_winners_rank_based: the winner rows of one combo and event
RankBasedEvent(res, rl, cfg, combo, event) ==
    LET rank1    == Rank1Athletes(res, rl, cfg.meet_name, combo, event)
        max_score == MaxPositiveScore(res, cfg.meet_name, combo, event)
        fallback == IF max_score = None THEN <<>>
                    ELSE LET found == RowsWithScore(res, cfg.meet_name, combo, event, max_score)
                         IN  [k \in 1..Len(found) |->
                                 <<res[found[k]].name, res[found[k]].gym, res[found[k]][event]>>]
        rank1_athletes == IF rank1 = <<>> THEN fallback ELSE rank1
    IN  [k \in 1..Len(rank1_athletes) |->
            WinnerRow(cfg, rank1_athletes[k][1], rank1_athletes[k][2], combo, event,
                      rank1_athletes[k][3], IsTie(rank1_athletes))]

\* _build_winners_score_based: table winners after the loops over combos and EVENTS
BuildWinnersScoreBased(res, cfg) ==
    LET combos == CombosScoreBased(res, cfg.meet_name)
    IN  Concat([c \in 1..Len(combos) |->
                   Concat([e \in 1..Len(EVENTS) |->
                              ScoreBasedEvent(res, cfg, combos[c], EVENTS[e])])])

\* _build_winners_rank_based: table winners after the loops over combos and EVENTS
BuildWinnersRankBased(res, cfg, batch) ==
    LET combos == CombosRankBased(res, cfg.meet_name)
        rl     == RankLookupRows(batch)
    IN  Concat([c \in 1..Len(combos) |->
                   Concat([e \in 1..Len(EVENTS) |->
                              RankBasedEvent(res, rl, cfg, combos[c], EVENTS[e])])])

\* build_database: the winners strategy chosen by config.source_type
BuildWinners(res, cfg, batch) ==
    IF cfg.source_type = "scorecat"
    THEN BuildWinnersRankBased(res, cfg, batch)
    ELSE BuildWinnersScoreBased(res, cfg)

\* a faulty winners step that keeps in table results only the rows of the meet that
\* won an event
WinnersBuiltKeepsWinnersOnly(res, cfg, batch) ==
    CHOOSE db \in
        {[results |-> SelectSeq(res, LAMBDA r :
                         r.meet_name = cfg.meet_name =>
                             \E k \in 1..Len(win) :
                                 /\ win[k].name = r.name /\ win[k].gym = r.gym
                                 /\ win[k].session = r.session /\ win[k].level = r.level
                                 /\ win[k].division = r.division),
          winners |-> win] : win \in {BuildWinners(res, cfg, batch)}} : TRUE

\* the tables after _build_winners_rank_based / _build_winners_score_based: table
\* results is read by SELECT statements only, the INSERT statements go to winners
\* (and to the temporary rank_lookup)
WinnersBuilt(res, cfg, batch) ==
    [results |-> res, winners |-> BuildWinners(res, cfg, batch)]

----------------------------------------------------------------------------
(* core/division_detector.py *)

\* s.upper()
Upper(s) == [i \in 1..Len(s) |-> UpperChar(s[i])]

\* s.startswith(prefix)
StartsWith(s, prefix) == Len(s) >= Len(prefix) /\ SubSeq(s, 1, Len(prefix)) = prefix

\* the characters matched by \w
IsWordChar(c) == IsUpperChar(c) \/ IsLowerChar(c) \/ IsDigit(c) \/ c = "_"

\* \b at the position after the first k characters of s
WordBoundary(s, k) ==
    LET before == k >= 1 /\ k <= Len(s) /\ IsWordChar(s[k])
        after  == k + 1 <= Len(s) /\ IsWordChar(s[k + 1])
    IN  before # after

\* re.match(r'^CH\b', upper), and with ab for CH
MatchesAbbrev(upper, ab) == StartsWith(upper, ab) /\ WordBoundary(upper, Len(ab))

\* re.match(r'^JR\.?\b', upper), and with ab for JR: the period is taken when the
\* boundary follows it, and left when the boundary follows the abbreviation
MatchesDottedAbbrev(upper, ab) ==
    \/ StartsWith(upper, ab \o <<".">>) /\ WordBoundary(upper, Len(ab) + 1)
    \/ MatchesAbbrev(upper, ab)

\* re.search(r'[.\s]([A-D])$', upper): ord(letter) - ord('A') + 1, or 0 without match
LetterOffset(upper) ==
    LET n == Len(upper)
        letters == <<"A", "B", "C", "D">>
    IN  IF /\ n >= 2
           /\ upper[n - 1] = "." \/ IsSpace(upper[n - 1])
           /\ \E k \in 1..4 : letters[k] = upper[n]
        THEN CHOOSE k \in 1..4 : letters[k] = upper[n]
        ELSE 0

\* the base score of the age group, 500 when the name matches none
BaseScore(upper) ==
    IF StartsWith(upper, <<"C","H","I","L","D">>) \/ MatchesAbbrev(upper, <<"C","H">>)
    THEN 100
    ELSE IF StartsWith(upper, <<"Y","O","U","T","H">>)
    THEN 200
    ELSE IF StartsWith(upper, <<"J","U","N","I","O","R">>) \/ MatchesDottedAbbrev(upper, <<"J","R">>)
    THEN 300
    ELSE IF StartsWith(upper, <<"S","E","N","I","O","R">>) \/ MatchesDottedAbbrev(upper, <<"S","R">>)
    THEN 400
    ELSE 500

\* a faulty _score_division that gives a bare full word the offset 0
ScoreDivisionFullWordFirst(name) ==
    CHOOSE score \in
        {IF BaseScore(upper) = 500 THEN 500 ELSE BaseScore(upper) + LetterOffset(upper) :
            upper \in {Upper(Strip(name))}} : TRUE

\* _score_division
ScoreDivision(name) ==
    CHOOSE score \in
        {IF BaseScore(upper) = 500 THEN 500
         ELSE IF LetterOffset(upper) = 0
              THEN IF Len(upper) > 3 THEN BaseScore(upper) + 5 ELSE BaseScore(upper)
              ELSE BaseScore(upper) + LetterOffset(upper) :
            upper \in {Upper(Strip(name))}} : TRUE

\* the characters of the division labels the model uses
Chars(label) ==
    CASE label = ""       -> <<>>
      [] label = "CH B"   -> <<"C","H"," ","B">>
      [] label = "JR"     -> <<"J","R">>
      [] label = "Junior" -> <<"J","u","n","i","o","r">>
      [] label = "Open"   -> <<"O","p","e","n">>
      [] label = "Open A" -> <<"O","p","e","n"," ","A">>
      [] label = "SR"     -> <<"S","R">>
      [] label = "SR A"   -> <<"S","R"," ","A">>
      [] label = "Senior" -> <<"S","e","n","i","o","r">>
      [] label = "Sr.D"   -> <<"S","r",".","D">>
      [] label = "Youth"  -> <<"Y","o","u","t","h">>
      [] label = "sr"     -> <<"s","r">>

\* SELECT DISTINCT division FROM results WHERE meet_name = ?, each value once in
\* the order of its first row, and without the values that are None or ''
Divisions(rows, meet_name) ==
    LET first(i) == /\ rows[i].meet_name = meet_name
                    /\ rows[i].division # ""
                    /\ \A j \in 1..(i - 1) :
                          rows[j].meet_name = meet_name => rows[j].division # rows[i].division
        picked   == SelectSeq([i \in 1..Len(rows) |-> i], first)
    IN  [k \in 1..Len(picked) |-> rows[picked[k]].division]

\* a faulty sort that puts the later of two labels of one score first
SortedByScoreTiesReversed(divisions) ==
    LET n == Len(divisions)
        place(score, i) ==
            1 + Cardinality({j \in 1..n : score[j] < score[i] \/ (score[j] = score[i] /\ j > i)})
    IN  CHOOSE scored \in
            {[k \in 1..n |-> divisions[CHOOSE i \in 1..n : place(score, i) = k]] :
                score \in {[i \in 1..n |-> ScoreDivision(Chars(divisions[i]))]}} : TRUE

\* sorted(divisions, key=_score_division): the sort is stable
SortedByScore(divisions) ==
    LET n == Len(divisions)
        place(score, i) ==
            1 + Cardinality({j \in 1..n : score[j] < score[i] \/ (score[j] = score[i] /\ j < i)})
    IN  CHOOSE scored \in
            {[k \in 1..n |-> divisions[CHOOSE i \in 1..n : place(score, i) = k]] :
                score \in {[i \in 1..n |-> ScoreDivision(Chars(divisions[i]))]}} : TRUE

\* detect_division_order: {division: position}, positions 1, 2, ... in sorted order
DetectDivisionOrder(rows, meet_name) ==
    CHOOSE order \in
        {[div \in {scored[k] : k \in 1..Len(scored)} |->
             Cardinality({scored[j] : j \in 1..(CHOOSE k \in 1..Len(scored) : scored[k] = div)})] :
            scored \in {SortedByScore(Divisions(rows, meet_name))}} : TRUE

----------------------------------------------------------------------------
(* process_meet.py: the batch, normalize_gyms, build_database *)

\* an export row with every optional field absent
BlankRaw(name, gym, division) ==
    [name |-> name, gym |-> gym, session |-> "S1", level |-> "3", division |-> division,
     vt |-> JNull, ub |-> JNull, bb |-> JNull, fx |-> JNull, aa |-> JNull,
     vtRank |-> JNull, ubRank |-> JNull, bbRank |-> JNull, fxRank |-> JNull,
     aaPlace |-> JNull]

\* the athlete dict GenericAdapter._parse_json_array builds for a row that carries
\* only a name and a gym: the gym is str(value), not stripped
GymOnlyAthlete(name, gym) ==
    [ExtractAthlete(BlankRaw(name, gym, "JR")) EXCEPT !.gym = gym]

----------------------------------------------------------------------------
(* adapters: a data file read row by row *)

Min(S) == CHOOSE m \in S : \A x \in S : m <= x

\* s.title(): a letter that follows a letter is lowered, every other one raised
StrTitle(s) ==
    [i \in 1..Len(s) |->
        IF i > 1 /\ (IsUpperChar(s[i - 1]) \/ IsLowerChar(s[i - 1]))
        THEN LowerChar(s[i]) ELSE UpperChar(s[i])]

\* bool(val) of a JSON value
Truthy(val) ==
    CASE val.t = "null" -> FALSE
      [] val.t = "bool" -> val.b
      [] val.t = "num"  -> val.v # 0
      [] val.t = "str"  -> val.s # <<>>

\* str(n) of a JSON number in thousandths, as Python prints a float: the fraction
\* without trailing zeros, one digit at least (9500 is "9.5", 9000 is "9.0")
RECURSIVE DropTrailingZeros(_)
DropTrailingZeros(ds) ==
    IF Len(ds) > 1 /\ ds[Len(ds)] = "0" THEN DropTrailingZeros(SubSeq(ds, 1, Len(ds) - 1)) ELSE ds

StrOfNum(n) ==
    LET mag  == IF n < 0 THEN 0 - n ELSE n
        frac == <<Digits[((mag \div 100) % 10) + 1], Digits[((mag \div 10) % 10) + 1],
                  Digits[(mag % 10) + 1]>>
    IN  (IF n < 0 THEN <<"-">> ELSE <<>>) \o NatToStr(mag \div 1000) \o <<".">>
            \o DropTrailingZeros(frac)

\* str(val) of a JSON value that is not null
PyStr(val) ==
    CASE val.t = "str"  -> val.s
      [] val.t = "num"  -> StrOfNum(val.v)
      [] val.t = "bool" -> IF val.b THEN <<"T","r","u","e">> ELSE <<"F","a","l","s","e">>

\* re.sub(r'\s*-\s*[A-Z, ]+$', '', raw): the leftmost hyphen that is followed up to
\* the end by whitespace and then capitals, commas and spaces (one at least) is cut
\* off together with the whitespace in front of it
DropDashNote(s) ==
    LET note(k) ==
            /\ s[k] = "-"
            /\ \E m \in (k + 1)..Len(s) :
                  /\ \A j \in (k + 1)..(m - 1) : IsSpace(s[j])
                  /\ \A j \in m..Len(s) : IsUpperChar(s[j]) \/ s[j] \in {",", " "}
        dashes == {k \in 1..Len(s) : note(k)}
    IN  IF dashes = {} THEN s ELSE RStrip(SubSeq(s, 1, Min(dashes) - 1))

\* ScoreCatAdapter._clean_last_name, for a str
CleanLastName(raw) == Strip(DropDashNote(Strip(raw)))

\* ScoreCatAdapter._clean_name, for two str
CleanName(first, last) ==
    LET f == Strip(first)
        l == CleanLastName(last)
    IN  IF f # <<>> /\ l # <<>> THEN f \o <<" ">> \o l
        ELSE IF f # <<>> THEN f ELSE l

\* ScoreCatAdapter._extract_athlete, lines 51-64: the name of a JSON object whose
\* name fields are null (or missing) or strings
ResolveName(obj) ==
    IF Truthy(obj.firstName) /\ Truthy(obj.lastName)
    THEN CleanName(obj.firstName.s, obj.lastName.s)
    ELSE IF Truthy(obj.fullName)
    THEN LET parts == SplitWs(Strip(obj.fullName.s))
         IN  IF Len(parts) >= 2 THEN CleanName(parts[1], Join(Tail(parts), <<" ">>))
             ELSE StrTitle(Strip(obj.fullName.s))
    ELSE <<>>

\* the export row _extract_athlete reads its fields from, for an object of the model:
\* the name here is the name lines 51-64 resolve
ScoreCatRaw(obj) ==
    [BlankRaw(ResolveName(obj), <<"A","l">>, "JR") EXCEPT !.vt = obj.vt, !.vtRank = obj.vtRank]

\* ScoreCatAdapter.parse, lines 40-46, over the elements of the JSON array: an
\* element that is null raises TypeError in _get_field (key in obj); an object is
\* appended when its name is not empty
ScoreCatParse(rows) ==
    LET kept == SelectSeq([i \in 1..Len(rows) |-> i],
                          LAMBDA i : ResolveName(rows[i]) # <<>>)
    IN  IF \E i \in 1..Len(rows) : rows[i].t = "null"
        THEN [athletes |-> <<>>, handed |-> <<>>, raised |-> "TypeError"]
        ELSE [athletes |-> [k \in 1..Len(kept) |-> ExtractAthlete(ScoreCatRaw(rows[kept[k]]))],
              handed   |-> [k \in 1..Len(kept) |->
                               [row |-> kept[k], event |-> "vault",
                                score |-> rows[kept[k]].vt, rank |-> rows[kept[k]].vtRank]],
              raised   |-> ""]

\* GenericAdapter._parse_score
GenericParseScore(val) ==
    IF val.t = "null" THEN None
    ELSE LET s == Strip(PyStr(val))
             v == FloatOf(s)
         IN  IF s = <<>> THEN None
             ELSE IF v # None /\ v[1] > 0 THEN v ELSE None

\* GenericAdapter._parse_rank
GenericParseRank(val) ==
    IF val.t = "null" THEN None
    ELSE IF val.t = "bool" THEN Some(IF val.b THEN 1 ELSE 0)
    ELSE IF val.t = "num" THEN Some(val.v)
    ELSE LET s == Strip(val.s)
         IN  IF s = <<>> THEN None ELSE IntOf(DropTieMarker(s))

EventCodes == {<<"V">>, <<"U","B">>, <<"B","e">>, <<"F","l">>, <<"F","x">>, <<"F","X">>}

\* re.sub(r'\s+(?:IES\s+)?(?:V|UB|Be|Fl|Fx|FX)(?:,(?:V|UB|Be|Fl|Fx|FX))*\s*$', '', s):
\* a last word that is a comma-separated list of event codes is cut off with the
\* whitespace in front of it, and with an IES in front of that
DropEventCodes(s) ==
    LET t      == RStrip(s)
        spaces == {k \in 1..Len(t) : IsSpace(t[k])}
        k      == IF spaces = {} THEN 0 ELSE Max(spaces)
        codes  == SplitChar(SubSeq(t, k + 1, Len(t)), ",")
        rest   == RStrip(SubSeq(t, 1, k))
        n      == Len(rest)
    IN  IF k = 0 \/ \E i \in 1..Len(codes) : codes[i] \notin EventCodes THEN s
        ELSE IF n >= 4 /\ SubSeq(rest, n - 2, n) = <<"I","E","S">> /\ IsSpace(rest[n - 3])
        THEN RStrip(SubSeq(rest, 1, n - 3))
        ELSE rest

\* GenericAdapter._parse_json_array, lines 140-148: the name of an object with a name
\* key, None when the object is skipped
GenericName(obj) ==
    IF ~Truthy(obj.name) THEN None
    ELSE Some(Strip(DropEventCodes(PyStr(obj.name))))

\* GenericAdapter._parse_json_array over the elements of the JSON array: an element
\* that is not an object is skipped, and so is an object without a name
GenericParse(rows) ==
    LET kept == SelectSeq([i \in 1..Len(rows) |-> i],
                          LAMBDA i : rows[i].t = "obj" /\ GenericName(rows[i]) # None)
    IN  [athletes |-> [k \in 1..Len(kept) |->
                          [GymOnlyAthlete(GenericName(rows[kept[k]])[1], <<"A","l">>) EXCEPT
                              !.vault = GenericParseScore(rows[kept[k]].vault),
                              !.vault_rank = GenericParseRank(rows[kept[k]].vtRank)]],
         handed   |-> [k \in 1..Len(kept) |->
                          [row |-> kept[k], event |-> "vault",
                           score |-> rows[kept[k]].vault, rank |-> rows[kept[k]].vtRank]],
         raised   |-> ""]

\* HtmlAdapter._parse_score
HtmlParseScore(text) ==
    LET s == Strip(text)
        v == FloatOf(s)
    IN  IF s = <<>> THEN None
        ELSE IF v # None /\ v[1] > 0 THEN v ELSE None

\* parts = line.strip().split('\t'), extended to 15 cells: cell i, counted from 1
TsvCell(line, i) ==
    LET parts == SplitChar(Strip(line), "\t")
    IN  IF i <= Len(parts) THEN parts[i] ELSE <<>>

\* HtmlAdapter.parse, lines 28-61: the athlete dict of one line
HtmlRecord(line) ==
    [name     |-> Strip(TsvCell(line, 1)),
     gym      |-> Strip(TsvCell(line, 2)),
     session  |-> Strip(TsvCell(line, 3)),
     level    |-> Strip(TsvCell(line, 4)),
     division |-> Strip(TsvCell(line, 5)),
     vault    |-> HtmlParseScore(TsvCell(line, 6)),
     bars     |-> HtmlParseScore(TsvCell(line, 8)),
     beam     |-> HtmlParseScore(TsvCell(line, 10)),
     floor    |-> HtmlParseScore(TsvCell(line, 12)),
     aa       |-> HtmlParseScore(TsvCell(line, 14)),
     rank     |-> Strip(TsvCell(line, 15)),
     num      |-> ""]

\* HtmlAdapter.parse over the lines after the header: every line is appended
HtmlParse(rows) ==
    [athletes |-> [k \in 1..Len(rows) |-> HtmlRecord(rows[k])],
     handed   |-> [k \in 1..Len(rows) |->
                      [row |-> k, event |-> "vault",
                       score |-> JStr(TsvCell(rows[k], 6)), rank |-> JNull]],
     raised   |-> ""]

\* PdfAdapter._is_score: float(text) succeeds and lies in 5.0 .. 40.0
PdfIsScore(text) ==
    LET v == FloatOf(text) IN v # None /\ 5000 <= v[1] /\ v[1] <= 40000

\* PdfAdapter._parse_individual_page, lines 96-109: the score taken from the text
\* at the position of a score column, None when there is no text
PdfCellScore(cell) ==
    IF cell # None /\ PdfIsScore(cell[1]) THEN FloatOf(cell[1]) ELSE None

\* PdfAdapter._parse_individual_page over the clusters of one page (the texts at the
\* positions of the name and of the score columns): a cluster is appended when it has
\* a vault score and a name that does not read as a score
PdfParse(rows) ==
    LET name(i) == IF rows[i].name # None /\ ~PdfIsScore(rows[i].name[1])
                   THEN rows[i].name[1] ELSE <<>>
        kept == SelectSeq([i \in 1..Len(rows) |-> i],
                          LAMBDA i : PdfCellScore(rows[i].vault) # None /\ name(i) # <<>>)
    IN  [athletes |-> [k \in 1..Len(kept) |->
                          [name |-> name(kept[k]), gym |-> <<"U","n","k","n","o","w","n">>,
                           session |-> "S1", level |-> "3", division |-> "JR",
                           vault |-> PdfCellScore(rows[kept[k]].vault),
                           bars  |-> PdfCellScore(rows[kept[k]].bars),
                           beam |-> None, floor |-> None, aa |-> None,
                           rank |-> None, num |-> None]],
         handed   |-> [k \in 1..Len(kept) |->
                          [row |-> kept[k], event |-> "bars",
                           score |-> IF rows[kept[k]].bars = None THEN JNull
                                     ELSE JStr(rows[kept[k]].bars[1]),
                           rank |-> JNull]],
         raised   |-> ""]

\* adapter.parse(data_path) of the adapter chosen by --source
AdapterParse(file) ==
    CASE file.source = "scorecat" -> ScoreCatParse(file.rows)
      [] file.source = "generic"  -> GenericParse(file.rows)
      [] file.source = "mso_html" -> HtmlParse(file.rows)
      [] file.source = "mso_pdf"  -> PdfParse(file.rows)

----------------------------------------------------------------------------
(* process_meet.py: the input pools and the steps of a run *)

\* gym spellings of one key family: case, acronym, hyphen, tab and padding variants,
\* the bare name, and empty gyms
NormPool == {
    <<"a","b"," ","g","y","m">>,
    <<"A","B"," ","G","y","m">>,
    <<"A","b","-","g","y","m">>,
    <<" ","a","b","\t","g","y","m"," ">>,
    <<"a","b">>,
    <<>>,
    <<" ">> }

\* canonical names with one, several and nested suffixed forms of one bare name
SuffixPool == {
    <<"A","l">>,
    <<"A","l"," ","G","y","m">>,
    <<"A","l"," ","C","l","u","b">>,
    <<"A","l"," ","C","l","u","b"," ","G","y","m">>,
    <<"a","l"," ","g","y","m">> }

\* names that are near duplicates (ratio 0.92) and a pair at exactly 0.80
FuzzyPool == {
    <<"A","b"," ","G","y","m">>,
    <<"A","b"," ","G","y","m","n">>,
    <<"A","b">>,
    <<"A","b","c">> }

NoGymMap == [kind |-> "nopath"]

\* a --gym-map path without a usable map: no such file, text that is not JSON, and
\* JSON that is not an object (an array)
BrokenGymMapFiles == {[kind |-> "missing"], [kind |-> "invalid"], [kind |-> "array"]}

\* alias-map files: keys that need lowering and stripping, an empty key, a value
\* that is not in canonical form; the keys of one file differ case-insensitively
GymMapFiles == {
    NoGymMap,
    [kind |-> "map", entries |-> << <<<<" ","A","B"," ","G","y","m"," ">>, <<"A","l">>>>,
                                    <<<<"z","z">>, <<"Q">>>> >>],
    [kind |-> "map", entries |-> << <<<<"A","b">>, <<"a","b"," ","g","y","m">>>>,
                                    <<<<>>, <<"N","o"," ","G","y","m">>>> >>] }

\* the names of the records of a batch, by position
RecordNames == <<"Ann", "Bea", "Cyd", "Dee", "Eve", "Fay">>

\* all batches of at most n athletes whose gyms are drawn from pool
Batches(pool, n) ==
    UNION {{[i \in 1..k |-> GymOnlyAthlete(RecordNames[i], gyms[i])] : gyms \in [1..k -> pool]} :
              k \in 0..n}

NoDataFile == [source |-> "", rows |-> <<>>]
EmptyReport == [unique_gyms |-> {}, auto_merged |-> EmptyDict, suffix_merged |-> EmptyDict,
                potential_duplicates |-> <<>>]
NoConfig == [state |-> "", meet_name |-> "", association |-> "", source_type |-> ""]

\* a parsed batch, nothing normalized or built yet
Fresh ==
    /\ handed = None
    /\ gym_report = EmptyReport
    /\ phase_gyms = [p1 |-> <<>>, p2 |-> <<>>, p3 |-> <<>>]
    /\ before_gyms = <<>>
    /\ runs = 0
    /\ config = NoConfig
    /\ db_exists = FALSE
    /\ results = <<>>
    /\ db_before = <<>>
    /\ committed = <<>>
    /\ state_divisions = None
    /\ division_order = EmptyDict
    /\ detected = FALSE
    /\ winners = <<>>
    /\ builds = 0
    /\ raised = ""

InitNorm ==
    /\ \/ athletes \in Batches(NormPool, MaxRecords) /\ gym_map_file \in GymMapFiles
       \/ athletes \in Batches(SuffixPool, MaxSuffixRecords) /\ gym_map_file = NoGymMap
       \/ /\ athletes \in Batches(FuzzyPool, MaxFuzzyRecords)
          /\ gym_map_file \in GymMapFiles \cup BrokenGymMapFiles
    /\ data_file = NoDataFile
    /\ Fresh

\* every result normalize can return for a batch: one per order in which the set
\* of gym names is iterated in Phase 2 (str hashes differ from process to process)
NormalizeOutcomes(batch, file) ==
    {NormalizeResult(Gyms(batch), file, order) :
        order \in IterationOrders(Phase2Bases(Gyms(batch)))}

\* a faulty normalize that takes the records left without gym off the list
ApplyGymsDropsGymless(batch, gyms) ==
    SelectSeq([i \in 1..Len(batch) |-> [batch[i] EXCEPT !.gym = gyms[i]]],
              LAMBDA a : Strip(a.gym) # <<>>)

\* a['gym'] = ... in the loops over athletes: the list keeps its records in place,
\* and of a record nothing but the value under 'gym' is assigned
ApplyGyms(batch, gyms) ==
    [i \in 1..Len(batch) |-> [batch[i] EXCEPT !.gym = gyms[i]]]

\* result = normalize_gyms(athletes, gym_map_path=args.gym_map): the batch is
\* rewritten in place and the report returned
Normalize ==
    /\ runs < MaxRuns
    /\ builds = 0
    /\ raised = ""
    /\ \E r \in NormalizeOutcomes(athletes, gym_map_file) :
          /\ athletes' = ApplyGyms(athletes, r.gyms)
          /\ gym_report' = r.report
          /\ phase_gyms' = [p1 |-> r.p1, p2 |-> r.p2, p3 |-> r.p3]
          /\ raised' = r.raised
    /\ before_gyms' = Gyms(athletes)
    /\ runs' = runs + 1
    /\ UNCHANGED <<data_file, handed, gym_map_file, config, db_exists, results, winners,
                   db_before, committed, builds, state_divisions, division_order, detected>>

NextNorm == Normalize

SpecNorm == InitNorm /\ [][NextNorm]_vars


\* score and rank cells of export rows, in thousandths of a point: a leader by score
\* ranked 2, a lower score ranked 1, and a no-show (score 0) ranked "1T"
ScoreCards == {
    [vt |-> JNum(9500), vtRank |-> JNum(2), ub |-> JNum(9000), ubRank |-> JNum(1)],
    [vt |-> JNum(9000), vtRank |-> JNum(1), ub |-> JNull,      ubRank |-> JNull],
    [vt |-> JNum(0),    vtRank |-> JStr(<<"1","T">>), ub |-> JNum(9000), ubRank |-> JNull] }

\* export rows: two names (the same name may occur twice), one gym, two divisions
RawRows ==
    {[BlankRaw(name, <<"A","l">>, division) EXCEPT
         !.vt = card.vt, !.vtRank = card.vtRank, !.ub = card.ub, !.ubRank = card.ubRank] :
        name \in {"Ann", "Bea"}, division \in {"JR", "SR"}, card \in ScoreCards}

\* --source choices and the MeetConfig built from the command line
Configs ==
    {[state |-> "Iowa", meet_name |-> "Meet1", association |-> "USAG", source_type |-> src] :
        src \in {"scorecat", "mso_html"}}

InitWin ==
    /\ athletes \in UNION {[1..k -> {ExtractAthlete(raw) : raw \in RawRows}] : k \in 0..MaxAthletes}
    /\ gym_map_file = NoGymMap
    /\ data_file = NoDataFile
    /\ Fresh

\* build_database(db_path, config, athletes): the database file is removed, table
\* results created and filled from the batch, and table winners built by the
\* strategy of the source; CREATE TABLE results fails when the table is there
BuildDatabase(cfg) ==
    /\ builds = 0
    /\ raised = ""
    /\ \E db \in {OsRemove([exists |-> db_exists, results |-> results, winners |-> winners])} :
          IF db.exists
          THEN /\ raised' = "OperationalError"
               /\ UNCHANGED <<db_exists, results, winners, committed>>
          ELSE \E res \in {InsertResults(db.results, ResultsRows(cfg, athletes))} :
                  /\ committed' = res
                  /\ \E built \in {WinnersBuilt(res, cfg, athletes)} :
                        /\ results' = built.results
                        /\ winners' = built.winners
                  /\ db_exists' = TRUE
                  /\ raised' = ""
    /\ db_before' = results
    /\ config' = cfg
    /\ builds' = builds + 1
    /\ UNCHANGED <<data_file, handed, athletes, gym_map_file, gym_report, phase_gyms,
                   before_gyms, runs, state_divisions, division_order, detected>>

NextWin == \E cfg \in Configs : BuildDatabase(cfg)

SpecWin == InitWin /\ [][NextWin]_vars

\* a faulty cache lookup that finds an ordering only when it has as many labels as
\* the meet at hand
CachedOrderOfSameSize(all_orders, state) ==
    IF state \in DOMAIN all_orders
          /\ Cardinality(DOMAIN all_orders[state])
                = Cardinality({results[i].division : i \in 1..Len(results)} \ {""})
    THEN Some(all_orders[state])
    ELSE None

\* if state in all_orders: return all_orders[state]
CachedOrder(all_orders, state) ==
    IF state \in DOMAIN all_orders THEN Some(all_orders[state]) ELSE None

\* a faulty save that writes a file holding the new ordering alone
SaveOrderAlone(all_orders, state, order) == Put(EmptyDict, state, order)

\* all_orders[state] = order; json.dump(all_orders, f): the orderings loaded from
\* the file (none when there is no file) with the new one under its state
SaveOrder(all_orders, state, order) == Put(all_orders, state, order)

\* division_order = get_division_order(db_path, config.meet_name, config.state,
\* config_dir): the ordering cached for the state when there is one, else the
\* detected ordering, which is saved under the state
GetDivisionOrder ==
    /\ builds >= 1
    /\ raised = ""
    /\ \E all_orders \in {IF state_divisions = None THEN EmptyDict ELSE state_divisions[1]} :
          IF CachedOrder(all_orders, config.state) # None
          THEN /\ division_order' = CachedOrder(all_orders, config.state)[1]
               /\ detected' = FALSE
               /\ UNCHANGED state_divisions
          ELSE \E order \in {DetectDivisionOrder(results, config.meet_name)} :
                  /\ division_order' = order
                  /\ detected' = TRUE
                  /\ state_divisions' = Some(SaveOrder(all_orders, config.state, order))
    /\ UNCHANGED <<data_file, handed, athletes, gym_map_file, gym_report, phase_gyms,
                   before_gyms, runs, config, db_exists, results, winners, db_before,
                   committed, builds, raised>>

\* an athlete dict that carries a division label and nothing else of interest
DivisionOnlyAthlete(division) ==
    [GymOnlyAthlete("Ann", <<"A","l">>) EXCEPT !.division = division]

\* division labels: the bands, bare abbreviations, lettered variants, bare full
\* words, two labels of one score, an unclassified label with and without a
\* letter, and an empty one
DivisionPool == {"SR", "sr", "SR A", "Sr.D", "Senior", "CH B", "Junior", "Youth", "Open",
                 "Open A", ""}

InitDiv ==
    /\ athletes \in UNION {[1..k -> {DivisionOnlyAthlete(d) : d \in DivisionPool}] :
                              k \in 0..MaxDivisionRecords}
    /\ gym_map_file = NoGymMap
    /\ data_file = NoDataFile
    /\ Fresh

NextDiv ==
    \/ \E cfg \in Configs : BuildDatabase(cfg)
    \/ GetDivisionOrder

SpecDiv == InitDiv /\ [][NextDiv]_vars

\* one more run of process_meet on the same output directory: a batch is parsed,
\* the database file and state_divisions.json are as the run before left them
Parse(batch) ==
    /\ builds >= 1
    /\ athletes' = batch
    /\ gym_report' = EmptyReport
    /\ phase_gyms' = [p1 |-> <<>>, p2 |-> <<>>, p3 |-> <<>>]
    /\ before_gyms' = <<>>
    /\ runs' = 0
    /\ config' = NoConfig
    /\ builds' = 0
    /\ raised' = ""
    /\ division_order' = EmptyDict
    /\ detected' = FALSE
    /\ UNCHANGED <<data_file, handed, gym_map_file, db_exists, results, winners, db_before,
                   committed, state_divisions>>

\* an athlete dict with a vault score and a vault rank
MeetAthlete(name, gym, division, card) ==
    ExtractAthlete([BlankRaw(name, gym, division) EXCEPT
                       !.vt = card.vt, !.vtRank = card.vtRank])

\* the batches of three meets: two with different division labels, and one whose
\* gym names nest (a bare name, two suffixed forms, a suffixed form of one of them)
MeetBatches == {
    << MeetAthlete("Ann", <<"A","l">>, "SR",
                   [vt |-> JNum(9500), vtRank |-> JNum(1)]),
       MeetAthlete("Bea", <<"A","l">>, "Senior",
                   [vt |-> JNum(9000), vtRank |-> JNum(1)]) >>,
    << MeetAthlete("Ann", <<"A","l">>, "SR A",
                   [vt |-> JNum(9500), vtRank |-> JNum(1)]),
       MeetAthlete("Bea", <<"A","l">>, "CH B",
                   [vt |-> JNum(9000), vtRank |-> JNum(1)]),
       MeetAthlete("Cyd", <<"A","l">>, "SR",
                   [vt |-> JNum(9000), vtRank |-> JNum(1)]) >>,
    << MeetAthlete("Ann", <<"A","l">>, "JR",
                   [vt |-> JNum(9500), vtRank |-> JNum(1)]),
       MeetAthlete("Bea", <<"A","l"," ","G","y","m">>, "JR",
                   [vt |-> JNum(9000), vtRank |-> JNum(2)]),
       MeetAthlete("Cyd", <<"A","l"," ","C","l","u","b">>, "JR",
                   [vt |-> JNum(9000), vtRank |-> JNum(2)]),
       MeetAthlete("Dee", <<"A","l"," ","C","l","u","b"," ","G","y","m">>, "JR",
                   [vt |-> JNum(9000), vtRank |-> JNum(2)]) >> }

\* the meets of two states, one of them held twice
MeetConfigs == {
    [state |-> "Iowa", meet_name |-> "Meet1", association |-> "USAG", source_type |-> "scorecat"],
    [state |-> "Iowa", meet_name |-> "Meet2", association |-> "USAG", source_type |-> "mso_html"],
    [state |-> "Utah", meet_name |-> "Meet3", association |-> "AAU", source_type |-> "scorecat"] }

InitMeets ==
    /\ athletes \in MeetBatches
    /\ gym_map_file = NoGymMap
    /\ data_file = NoDataFile
    /\ Fresh

NextMeets ==
    \/ \E batch \in MeetBatches : Parse(batch)
    \/ \E cfg \in MeetConfigs : BuildDatabase(cfg)
    \/ GetDivisionOrder

SpecMeets == InitMeets /\ [][NextMeets]_vars

\* one run of process_meet from the parsed batch to the database
InitPipeline ==
    /\ athletes \in Batches(SuffixPool, MaxRecords) \cup MeetBatches
    /\ gym_map_file = NoGymMap
    /\ data_file = NoDataFile
    /\ Fresh

NextPipeline ==
    \/ Normalize
    \/ \E cfg \in Configs : BuildDatabase(cfg)

SpecPipeline == InitPipeline /\ [][NextPipeline]_vars

----------------------------------------------------------------------------
(* process_meet.py: athletes = adapter.parse(args.data[0]) *)

\* largest number of rows of a data file in SpecAdapters
MaxDataRows == 2

\* score cells of an export: null, numbers (positive, zero, negative), true, and texts
\* (padded, zero, negative, not a number, empty, a score under 5.0)
ScoreCells == {
    JNull, JNum(9500), JNum(0), JNum(0 - 1000), JBool(TRUE),
    JStr(<<"9",".","5">>), JStr(<<" ","9",".","5"," ">>), JStr(<<"0",".","0","0","0">>),
    JStr(<<"-","1">>), JStr(<<"a","b","c">>), JStr(<<>>), JStr(<<"4",".","5">>) }

\* the score cells that are texts, as a TSV line or a PDF page has them
ScoreTexts == {cell.s : cell \in {c \in ScoreCells : c.t = "str"}}

\* rank cells of an export: null, an integer, texts with one tie marker, with two,
\* with nothing but the marker, not a number, empty, padded
RankCells == {
    JNull, JNum(1), JStr(<<"3","T">>), JStr(<<"3","t">>), JStr(<<"T">>),
    JStr(<<"3","T","T">>), JStr(<<"a","b","c">>), JStr(<<>>), JStr(<<" ","2"," ">>) }

AnnLee == <<"A","n","n"," ","L","e","e">>

\* an element of a ScoreCat array that is an object
ScoreCatObject(first, last, full, vt, vtRank) ==
    [t |-> "obj", firstName |-> first, lastName |-> last, fullName |-> full,
     vt |-> vt, vtRank |-> vtRank]

\* elements of a ScoreCat array: names that resolve, names that do not (missing,
\* blank), an element that is null, and one object per score cell and per rank cell
ScoreCatRows ==
    {ScoreCatObject(JNull, JNull, full, JNum(9500), JNum(1)) :
        full \in {JStr(<<"a","n","n">>), JStr(<<" ">>), JNull,
                  JStr(AnnLee \o <<"-"," ","B","B">>)}}
    \cup {ScoreCatObject(JStr(<<"A","n","n">>), JStr(<<"L","e","e">>), JNull, JNum(9500), JNum(1)),
          JNull}
    \cup {ScoreCatObject(JNull, JNull, JStr(AnnLee), vt, JNull) : vt \in ScoreCells}
    \cup {ScoreCatObject(JNull, JNull, JStr(AnnLee), JNum(9500), rk) : rk \in RankCells}

\* an element of a generic JSON array that is an object
GenericObject(name, vault, vtRank) ==
    [t |-> "obj", name |-> name, vault |-> vault, vtRank |-> vtRank]

\* elements of a generic JSON array: names with and without event codes, names that
\* are missing, empty, blank or nothing but an event code, an element that is null
GenericRows ==
    {GenericObject(name, JNum(9500), JNum(1)) :
        name \in {JStr(AnnLee \o <<" ","U","B">>), JStr(<<" ">>), JStr(<<" ","U","B">>),
                  JStr(<<>>), JNull}}
    \cup {JNull}
    \cup {GenericObject(JStr(AnnLee), vault, JNull) : vault \in ScoreCells}
    \cup {GenericObject(JStr(AnnLee), JNum(9500), rk) : rk \in RankCells}

\* a line of a MeetScoresOnline TSV file: name, gym, session, level, division, vault,
\* vault rank; the cells behind them are left out
TsvLine(name, vault) ==
    Join(<<name, <<"A","l">>, <<"S","1">>, <<"3">>, <<"J","R">>, vault, <<"1">>>>, <<"\t">>)

\* lines of a TSV file: a name, no name, a blank name, a blank line, one line per
\* score text
TsvLines ==
    {TsvLine(name, <<"9",".","5">>) : name \in {<<>>, <<" ">>}}
    \cup {<<>>}
    \cup {TsvLine(AnnLee, vault) : vault \in ScoreTexts}

\* the clusters of a PDF page: the texts found at the positions of the name, the
\* vault and the bars column (a page has no empty text); a name, no name, a name that
\* reads as a score
PdfClusters ==
    {[name |-> name, vault |-> Some(<<"9",".","5">>), bars |-> Some(<<"9",".","5">>)] :
        name \in {None, Some(<<"1","2">>)}}
    \cup {[name |-> Some(AnnLee), vault |-> vault, bars |-> bars] :
            vault \in {None, Some(<<"9",".","5">>), Some(<<"4",".","5">>)},
            bars  \in {None} \cup {Some(text) : text \in {t \in ScoreTexts : t # <<>> /\ Strip(t) = t}}}

\* --source and the rows of the file behind --data
DataFiles ==
    UNION {[source : {"scorecat"}, rows : [1..n -> ScoreCatRows]]
           \cup [source : {"generic"}, rows : [1..n -> GenericRows]]
           \cup [source : {"mso_html"}, rows : [1..n -> TsvLines]]
           \cup [source : {"mso_pdf"}, rows : [1..n -> PdfClusters]] : n \in 0..MaxDataRows}

InitAdapters ==
    /\ data_file \in DataFiles
    /\ athletes = <<>>
    /\ gym_map_file = NoGymMap
    /\ Fresh

\* athletes = adapter.parse(args.data[0]): the batch the adapter returns, or the
\* exception that escapes it
ParseDataFile ==
    /\ handed = None
    /\ \E parsed \in {AdapterParse(data_file)} :
          /\ athletes' = parsed.athletes
          /\ handed' = Some(parsed.handed)
          /\ raised' = parsed.raised
    /\ UNCHANGED <<data_file, gym_map_file, gym_report, phase_gyms, before_gyms, runs, config,
                   db_exists, results, winners, db_before, committed, builds,
                   state_divisions, division_order, detected>>

NextAdapters == ParseDataFile

SpecAdapters == InitAdapters /\ [][NextAdapters]_vars

----------------------------------------------------------------------------
(* Properties of the winner engine, checked under SpecWin *)

\* the athlete dicts of the batch that lie in a partition
InPartition(combo) ==
    {i \in 1..Len(athletes) : /\ athletes[i].session = combo[1]
                              /\ athletes[i].level = combo[2]
                              /\ athletes[i].division = combo[3]}

PartitionOf(i) == <<athletes[i].session, athletes[i].level, athletes[i].division>>

Partitions == {PartitionOf(i) : i \in 1..Len(athletes)}

EventSet == {EVENTS[e] : e \in 1..Len(EVENTS)}

HasPositive(i, event) == athletes[i][event] # None /\ athletes[i][event][1] > 0

\* the athletes of a partition that hold its maximum positive score for an event
TopScorers(combo, event) ==
    LET scored == {i \in InPartition(combo) : HasPositive(i, event)}
    IN  {i \in scored : \A j \in scored : athletes[j][event][1] <= athletes[i][event][1]}

\* the athletes of a partition with rank 1 and a positive score for an event
RankOneScorers(combo, event) ==
    {i \in InPartition(combo) :
        HasPositive(i, event) /\ athletes[i][rank_cols[event]] = Some(1)}

\* the positions of the winner rows of a partition and event
WinnerRowsOf(combo, event) ==
    {k \in 1..Len(winners) : /\ winners[k].session = combo[1]
                             /\ winners[k].level = combo[2]
                             /\ winners[k].division = combo[3]
                             /\ winners[k].event = event}

\* the winner rows of a partition and event are exactly the athletes in S: every
\* row is the name, gym and score of an athlete of S, and each <<name, gym, score>>
\* has as many rows as S has athletes carrying it
WinnersAreExactly(combo, event, S) ==
    LET rows == WinnerRowsOf(combo, event)
        card(i) == <<athletes[i].name, athletes[i].gym, athletes[i][event]>>
        line(k) == <<winners[k].name, winners[k].gym, winners[k].score>>
    IN  /\ \A k \in rows : \E i \in S : card(i) = line(k)
        /\ \A i \in S : Cardinality({k \in rows : line(k) = card(i)})
                          = Cardinality({j \in S : card(j) = card(i)})

\* the athletes a winner row of the partition and event stands for
WinnerSet(combo, event) ==
    {i \in InPartition(combo) :
        \E k \in WinnerRowsOf(combo, event) :
            /\ winners[k].name = athletes[i].name /\ winners[k].gym = athletes[i].gym
            /\ winners[k].score = athletes[i][event] /\ athletes[i][event] # None}

ScoreBasedBuilt == builds >= 1 /\ config.source_type # "scorecat"
RankBasedBuilt == builds >= 1 /\ config.source_type = "scorecat"

\* C2: score-based strategy: for every partition and event the winner rows are
\* exactly the athletes of the partition whose score equals the maximum positive
\* score of the partition; absent and lower scores never win.
C2_ScoreBasedWinners ==
    ScoreBasedBuilt =>
        /\ \A combo \in Partitions : \A event \in EventSet :
               WinnersAreExactly(combo, event, TopScorers(combo, event))
        /\ \A k \in 1..Len(winners) :
               <<winners[k].session, winners[k].level, winners[k].division>> \in Partitions

\* C2 witness: a partition with vault 9.5, 9.5 and 9.0 has two vault winner rows at
\* 9.5 marked as a tie and none at 9.0.
C2_Witness ==
    /\ ScoreBasedBuilt
    /\ \E combo \in Partitions :
          /\ Cardinality(TopScorers(combo, "vault")) = 2
          /\ \E i \in InPartition(combo) : athletes[i].vault = Some(9000)
          /\ Cardinality(WinnerRowsOf(combo, "vault")) = 2
          /\ \A k \in WinnerRowsOf(combo, "vault") :
                winners[k].score = Some(9500) /\ winners[k].is_tie = 1

\* C3 (as stated): rank-based strategy: when some athlete of the partition has rank 1
\* and a positive score for the event, the winner rows are exactly those athletes.
C3_RankOneWinners ==
    RankBasedBuilt =>
        \A combo \in Partitions : \A event \in EventSet :
            RankOneScorers(combo, event) # {} =>
                WinnersAreExactly(combo, event, RankOneScorers(combo, event))

\* C4 (as stated): rank-based fallback: when no athlete of the partition has rank 1
\* together with a positive score for the event, the winner rows are exactly the
\* athletes holding the maximum positive score.
C4_RankFallback ==
    RankBasedBuilt =>
        \A combo \in Partitions : \A event \in EventSet :
            RankOneScorers(combo, event) = {} =>
                WinnersAreExactly(combo, event, TopScorers(combo, event))

\* C5 (as stated): in both strategies all winner rows of a partition and event carry
\* the same is_tie, which is 1 exactly when the winner set of that partition and
\* event holds more than one athlete.
C5_IsTie ==
    builds >= 1 =>
        \A combo \in Partitions : \A event \in EventSet :
            \A k \in WinnerRowsOf(combo, event) :
                winners[k].is_tie = (IF Cardinality(WinnerSet(combo, event)) > 1 THEN 1 ELSE 0)

\* C6: in both strategies a partition and event without any positive score has no
\* winner rows, and every partition and event that has a positive score still gets
\* its winner rows (the build goes on past the empty ones).
C6_NoPositiveNoWinners ==
    builds >= 1 =>
        \A combo \in Partitions : \A event \in EventSet :
            (\A i \in InPartition(combo) : ~HasPositive(i, event))
                <=> WinnerRowsOf(combo, event) = {}

\* C6 witness: a score-based build of a partition whose only vault cell was a 0 in
\* the export: no vault winner rows, and the bars winner rows of the same partition
\* are written.
C6_Witness ==
    /\ ScoreBasedBuilt
    /\ \E combo \in Partitions :
          /\ \A i \in InPartition(combo) : athletes[i].vault = None
          /\ WinnerRowsOf(combo, "vault") = {}
          /\ WinnerRowsOf(combo, "bars") # {}

----------------------------------------------------------------------------
(* Properties of the gym normalizer, checked under SpecNorm *)

Records == 1..Len(athletes)

\* the names of the batch after Phase 1
AfterPhase1 == UniqueGyms(phase_gyms.p1)

\* the suffixed names of the batch, after Phase 1, whose bare prefix is b
SuffixedFormsOf(b) == {g \in AfterPhase1 : IsSuffixed(g) /\ BaseOf(g) = b}

\* the number of records whose gym was g after Phase 1
AthleteCount(g) == Cardinality({i \in Records : phase_gyms.p1[i] = g})

\* the trimmed spellings of the input that share a normalization key
SpellingsOf(key) == {Strip(before_gyms[i]) : i \in {j \in Records : NormKey(before_gyms[j]) = key}}

SpellingCount(v) == Cardinality({i \in Records : Strip(before_gyms[i]) = v})

MostFrequentSpellings(key) ==
    {v \in SpellingsOf(key) : \A w \in SpellingsOf(key) : SpellingCount(w) <= SpellingCount(v)}

\* the lowered, trimmed keys of the alias map that equal the lowered, trimmed gym
AliasMatches(g) ==
    {e \in 1..Len(gym_map_file.entries) :
        Strip(Lower(gym_map_file.entries[e][1])) = Strip(Lower(g))}

\* C1 (as stated): running normalize on its own output, with the same alias map or
\* none, changes no gym field and reports no auto or suffix merges.
C1_Idempotent ==
    runs >= 2 =>
        /\ Gyms(athletes) = before_gyms
        /\ gym_report.auto_merged = EmptyDict
        /\ gym_report.suffix_merged = EmptyDict

\* C7 (as stated): when the batch after Phase 1 holds a suffixed name S and its bare
\* prefix B, every record whose gym was B or S ends the suffix phase with S and
\* suffix_merged maps B to S.
C7_SuffixWins ==
    runs >= 1 =>
        \A S \in AfterPhase1 :
            (IsSuffixed(S) /\ BaseOf(S) \in AfterPhase1) =>
                /\ \A i \in Records :
                      phase_gyms.p1[i] \in {BaseOf(S), S} => phase_gyms.p3[i] = S
                /\ BaseOf(S) \in DOMAIN gym_report.suffix_merged
                /\ gym_report.suffix_merged[BaseOf(S)] = S

\* C7 (amended): when S is the only suffixed name with bare prefix B, suffix_merged
\* has an entry for B and every record of B ends with it, whatever the athlete
\* counts; the entry is S unless B is itself one of several suffixed variants of
\* another bare prefix of the batch, and then it is S or one of those variants.
\* Records of S keep S unless S is itself the bare prefix of suffixed names of the
\* batch, and then they end with one of those.
C7_SoleSuffixWins ==
    runs >= 1 =>
        \A S \in AfterPhase1 :
            (IsSuffixed(S) /\ BaseOf(S) \in AfterPhase1 /\ SuffixedFormsOf(BaseOf(S)) = {S}) =>
                LET B == BaseOf(S)
                    siblings == IF IsSuffixed(B) /\ BaseOf(B) \in AfterPhase1
                                THEN SuffixedFormsOf(BaseOf(B)) \ {B} ELSE {}
                IN  /\ B \in DOMAIN gym_report.suffix_merged
                    /\ gym_report.suffix_merged[B] \in {S} \cup siblings
                    /\ \A i \in Records :
                          phase_gyms.p1[i] = B => phase_gyms.p3[i] = gym_report.suffix_merged[B]
                    /\ \A i \in Records :
                          phase_gyms.p1[i] = S =>
                              IF SuffixedFormsOf(S) = {} THEN phase_gyms.p3[i] = S
                              ELSE phase_gyms.p3[i] \in SuffixedFormsOf(S)

\* C7 witness: the bare prefix has more records than its only suffixed name, nothing
\* else is involved, and every record of either ends with the suffixed name.
C7_Witness ==
    /\ runs >= 1
    /\ \E S \in AfterPhase1 :
          /\ IsSuffixed(S) /\ BaseOf(S) \in AfterPhase1
          /\ SuffixedFormsOf(BaseOf(S)) = {S} /\ SuffixedFormsOf(S) = {}
          /\ AthleteCount(BaseOf(S)) > AthleteCount(S)
          /\ gym_report.suffix_merged[BaseOf(S)] = S
          /\ \A i \in Records : phase_gyms.p1[i] \in {BaseOf(S), S} => phase_gyms.p3[i] = S

\* C8 (as stated): when several suffixed names share a bare prefix B that occurs in
\* the batch, one of them with the most athlete records is the target, and B and
\* every other suffixed name of B end with the target and are mapped to it in
\* suffix_merged.
C8_MostAthletesTarget ==
    runs >= 1 =>
        \A B \in AfterPhase1 :
            Cardinality(SuffixedFormsOf(B)) >= 2 =>
                \E T \in SuffixedFormsOf(B) :
                    /\ \A g \in SuffixedFormsOf(B) : AthleteCount(g) <= AthleteCount(T)
                    /\ \A g \in ({B} \cup SuffixedFormsOf(B)) \ {T} :
                          /\ g \in DOMAIN gym_report.suffix_merged
                          /\ gym_report.suffix_merged[g] = T
                          /\ \A i \in Records : phase_gyms.p1[i] = g => phase_gyms.p3[i] = T

\* what Phase 1 owes a group of records that share a normalization key
CanonicalGroup(key) ==
    \E canonical \in {TitleCaseGym(v) : v \in MostFrequentSpellings(key)} :
        \A i \in Records :
            NormKey(before_gyms[i]) = key =>
                /\ phase_gyms.p1[i] = canonical
                /\ \A stripped \in {Strip(before_gyms[i])} \ {canonical} :
                      /\ stripped \in DOMAIN gym_report.auto_merged
                      /\ gym_report.auto_merged[stripped] = canonical

\* auto_merged holds nothing but spellings of the input mapped to what they became
AutoMergedOnlyChanges ==
    \A v \in DOMAIN gym_report.auto_merged :
        /\ gym_report.auto_merged[v] # v
        /\ \E i \in Records :
              Strip(before_gyms[i]) = v /\ phase_gyms.p1[i] = gym_report.auto_merged[v]

\* C9 (as stated): after Phase 1 the records that share a normalization key carry one
\* gym string, the title-cased form of a most frequent spelling of the group, and
\* auto_merged maps every spelling that differs from it to it.
C9_OneCanonicalPerKey ==
    runs >= 1 =>
        /\ \A key \in {NormKey(before_gyms[i]) : i \in Records} : CanonicalGroup(key)
        /\ AutoMergedOnlyChanges

\* C9 (amended): the same for every non-empty normalization key; a record whose gym
\* is empty or only whitespace keeps its gym as it was.
C9_OneCanonicalPerNonEmptyKey ==
    runs >= 1 =>
        /\ \A key \in {NormKey(before_gyms[i]) : i \in Records} \ {<<>>} : CanonicalGroup(key)
        /\ \A i \in Records : NormKey(before_gyms[i]) = <<>> => phase_gyms.p1[i] = before_gyms[i]
        /\ AutoMergedOnlyChanges

\* C9 witness: a group of three records with two spellings; all three end with the
\* title-cased majority spelling, which is not the title-cased minority spelling.
C9_Witness ==
    /\ runs = 1
    /\ \E i, j \in Records :
          /\ NormKey(before_gyms[i]) = NormKey(before_gyms[j])
          /\ NormKey(before_gyms[i]) # <<>>
          /\ SpellingCount(Strip(before_gyms[i])) > SpellingCount(Strip(before_gyms[j]))
          /\ TitleCaseGym(Strip(before_gyms[i])) # TitleCaseGym(Strip(before_gyms[j]))
          /\ phase_gyms.p1[i] = TitleCaseGym(Strip(before_gyms[i]))
          /\ phase_gyms.p1[j] = phase_gyms.p1[i]
          /\ gym_report.auto_merged[Strip(before_gyms[j])] = phase_gyms.p1[i]

\* C10: with an alias map, a record whose gym after the suffix phase equals a key of
\* the map, both lowered and trimmed, ends with that key's value; a record that
\* matches no key keeps its gym.
C10_AliasMap ==
    (runs >= 1 /\ gym_map_file.kind = "map") =>
        \A i \in Records :
            IF AliasMatches(phase_gyms.p3[i]) = {}
            THEN athletes[i].gym = phase_gyms.p3[i]
            ELSE \A e \in AliasMatches(phase_gyms.p3[i]) :
                    athletes[i].gym = gym_map_file.entries[e][2]

\* C10 witness: one record's gym differs from a key only in case and padding and is
\* replaced by the key's value, another matches no key and keeps its gym.
C10_Witness ==
    /\ runs = 1 /\ gym_map_file.kind = "map"
    /\ \E i, j \in Records :
          /\ \E e \in AliasMatches(phase_gyms.p3[i]) :
                /\ gym_map_file.entries[e][1] # phase_gyms.p3[i]
                /\ athletes[i].gym = gym_map_file.entries[e][2]
                /\ athletes[i].gym # phase_gyms.p3[i]
          /\ AliasMatches(phase_gyms.p3[j]) = {}
          /\ athletes[j].gym = phase_gyms.p3[j]


\* the report normalize returns for the same batch when no alias map is supplied
ReportsWithoutMap == {r.report : r \in NormalizeOutcomes(
                         [i \in 1..Len(before_gyms) |-> GymOnlyAthlete("Ann", before_gyms[i])],
                         NoGymMap)}

\* C11 (as stated): when the alias-map path names a missing file or a file with
\* malformed content, normalize does not raise, every record keeps its gym of
\* Phases 1-3, and the report is the one returned without an alias map.
C11_BrokenMapSkipped ==
    (runs >= 1 /\ gym_map_file \in BrokenGymMapFiles) =>
        /\ raised = ""
        /\ Gyms(athletes) = phase_gyms.p3
        /\ gym_report \in ReportsWithoutMap

\* the names of the batch normalize returned
OutputGyms == {athletes[i].gym : i \in Records}

\* the merge maps of the report hold nothing but what Phase 1 and Phase 2 did
MergesFromPhases1And2 ==
    /\ AutoMergedOnlyChanges
    /\ \A b \in DOMAIN gym_report.suffix_merged :
          \E i \in Records : /\ phase_gyms.p1[i] = b
                             /\ phase_gyms.p2[i] = gym_report.suffix_merged[b]

\* C12 (as stated): Phase 3 changes no gym and adds nothing to auto_merged or
\* suffix_merged, and both names of every reported pair are distinct gym names of
\* the output.
C12_Phase3Advisory ==
    (runs >= 1 /\ raised = "") =>
        /\ phase_gyms.p3 = phase_gyms.p2
        /\ MergesFromPhases1And2
        /\ \A k \in 1..Len(gym_report.potential_duplicates) :
              LET pair == gym_report.potential_duplicates[k]
              IN  pair[1] # pair[2] /\ {pair[1], pair[2]} \subseteq OutputGyms

\* C12 (amended): the same, with both names of every reported pair distinct gym
\* names of the batch after Phase 3, and of the output unless the alias map of
\* Phase 4 has a key for the name.
C12_Phase3AdvisoryBeforeAlias ==
    (runs >= 1 /\ raised = "") =>
        /\ phase_gyms.p3 = phase_gyms.p2
        /\ MergesFromPhases1And2
        /\ \A k \in 1..Len(gym_report.potential_duplicates) :
              LET pair == gym_report.potential_duplicates[k]
              IN  /\ pair[1] # pair[2]
                  /\ \A g \in {pair[1], pair[2]} :
                        /\ \E i \in Records : phase_gyms.p3[i] = g
                        /\ (gym_map_file.kind # "map" \/ AliasMatches(g) = {})
                              => g \in OutputGyms

\* C12 witness: a pair is reported, neither name is a key of a merge map, and both
\* names are still in the output.
C12_Witness ==
    /\ runs >= 1 /\ raised = ""
    /\ \E k \in 1..Len(gym_report.potential_duplicates) :
          LET pair == gym_report.potential_duplicates[k]
          IN  /\ {pair[1], pair[2]} \subseteq OutputGyms
              /\ pair[3] > 80
              /\ {pair[1], pair[2]} \cap DOMAIN gym_report.suffix_merged = {}
              /\ {pair[1], pair[2]} \cap DOMAIN gym_report.auto_merged = {}

\* C28: after normalize without an alias map no gym name of the batch is the bare
\* prefix of a suffixed gym name of the batch, also when suffixed names nest.
C28_NoBareBesideSuffixed ==
    (runs >= 1 /\ gym_map_file = NoGymMap /\ raised = "") =>
        \A S \in OutputGyms : IsSuffixed(S) => BaseOf(S) \notin OutputGyms

\* C29: a normalize call leaves the number and the order of the records of the
\* batch and every field of every record other than gym as they are, with and
\* without alias map, and also when it raises.
C29_OnlyGymChanges ==
    [][runs' = runs + 1 =>
          /\ Len(athletes') = Len(athletes)
          /\ \A i \in 1..Len(athletes) :
                [athletes'[i] EXCEPT !.gym = athletes[i].gym] = athletes[i]]_vars

\* C29 witness: a call with an alias map rewrote the gyms of a batch of three
\* records with different names, one of them by the alias map.
C29_Witness ==
    /\ runs = 1 /\ raised = ""
    /\ gym_map_file.kind = "map"
    /\ Len(athletes) = 3
    /\ \A i, j \in Records : i # j => athletes[i].name # athletes[j].name
    /\ \A i \in Records : athletes[i].gym # before_gyms[i]
    /\ \E i \in Records : athletes[i].gym # phase_gyms.p3[i]

----------------------------------------------------------------------------
(* Properties of the store and of the winner rows, checked under SpecWin *)

\* C18: after build_database table results has one row per record of the batch, in
\* the order of the batch, with the fields of the record and the state, meet_name
\* and association of the config.
C18_OneRowPerRecord ==
    builds >= 1 =>
        /\ Len(results) = Len(athletes)
        /\ \A i \in 1..Len(athletes) :
              /\ results[i].state = config.state
              /\ results[i].meet_name = config.meet_name
              /\ results[i].association = config.association
              /\ \A field \in {"name", "gym", "session", "level", "division", "vault", "bars",
                               "beam", "floor", "aa", "rank", "num"} :
                    results[i][field] = athletes[i][field]

\* C18 witness: two records of the batch are equal in every field, a third one
\* differs, and table results has the three rows.
C18_Witness ==
    /\ builds = 1
    /\ \E i, j, k \in 1..Len(athletes) :
          i < j /\ athletes[i] = athletes[j] /\ athletes[k] # athletes[i]
    /\ Len(results) = Len(athletes)

\* the score and rank fields of an athlete dict that belong to other events
OtherEventFields(event) ==
    UNION {{ev, rank_cols[ev]} : ev \in EventSet \ {event}}

\* the records of a partition, in batch order, with nothing but the fields of the
\* partition and the score and rank of one event
OnlyPartitionAndEvent(combo, event) ==
    LET kept == SelectSeq([i \in 1..Len(athletes) |-> i], LAMBDA i : i \in InPartition(combo))
    IN  [k \in 1..Len(kept) |->
            [field \in DOMAIN athletes[kept[k]] |->
                IF field \in OtherEventFields(event) THEN None ELSE athletes[kept[k]][field]]]

\* the winner rows of a partition and event in a table, in table order
WinnerRowsIn(table, combo, event) ==
    SelectSeq(table, LAMBDA w : /\ w.session = combo[1] /\ w.level = combo[2]
                                /\ w.division = combo[3] /\ w.event = event)

\* C19: the winner rows of a partition and event are the rows a build computes from
\* the records of that partition alone, with the scores and ranks of every other
\* event taken away.
C19_PartitionEventIndependence ==
    builds >= 1 =>
        \A combo \in Partitions : \A event \in EventSet :
            \E batch \in {OnlyPartitionAndEvent(combo, event)} :
                WinnerRowsIn(winners, combo, event)
                    = WinnerRowsIn(BuildWinners(ResultsRows(config, batch), config, batch),
                                   combo, event)

\* C19 witness: two partitions have winner rows, and one athlete has the winner row
\* of vault and the winner row of bars of her partition.
C19_Witness ==
    /\ builds = 1
    /\ \E k, m \in 1..Len(winners) : winners[k].division # winners[m].division
    /\ \E i \in 1..Len(athletes) :
          /\ Cardinality({j \in 1..Len(athletes) : athletes[j].name = athletes[i].name}) = 1
          /\ \E k, m \in 1..Len(winners) :
                /\ winners[k].name = athletes[i].name /\ winners[k].event = "vault"
                /\ winners[m].name = athletes[i].name /\ winners[m].event = "bars"
                /\ winners[k].division = athletes[i].division
                /\ winners[m].division = athletes[i].division

\* C20: every winner row has a results row with its name, gym, session, level and
\* division whose score for the event of the row is the score of the row.
C20_WinnerCarriesScore ==
    builds >= 1 =>
        \A k \in 1..Len(winners) :
            \E i \in 1..Len(results) :
                /\ results[i].name = winners[k].name /\ results[i].gym = winners[k].gym
                /\ results[i].session = winners[k].session
                /\ results[i].level = winners[k].level
                /\ results[i].division = winners[k].division
                /\ results[i][winners[k].event] # None
                /\ results[i][winners[k].event] = winners[k].score

\* C20 witness: the rank-based strategy wrote the winner row of an athlete with
\* rank 1 and score 9.0, and the row carries 9.0.
C20_Witness ==
    /\ RankBasedBuilt
    /\ \E k \in 1..Len(winners) : \E i \in 1..Len(athletes) :
          /\ winners[k].name = athletes[i].name /\ winners[k].division = athletes[i].division
          /\ winners[k].event = "vault"
          /\ athletes[i].vault_rank = Some(1) /\ athletes[i].vault = Some(9000)
          /\ winners[k].score = Some(9000)

\* the rows of a table as a multiset: each row with the number of times it occurs
RowBag(table) ==
    [row \in {table[i] : i \in 1..Len(table)} |->
        Cardinality({i \in 1..Len(table) : table[i] = row})]

\* C21: the multiset of results rows after the winners are built is the multiset of
\* results rows at the commit before they are built, in both strategies.
C21_WinnersLeaveResults ==
    (builds >= 1 /\ raised = "") => RowBag(results) = RowBag(committed)

\* C21 witness: a rank-based build wrote winner rows from a table results that holds
\* one row twice and a row of an athlete that won nothing, and the table is as it
\* was committed.
C21_Witness ==
    /\ RankBasedBuilt
    /\ winners # <<>>
    /\ \E i, j \in 1..Len(committed) : i < j /\ committed[i] = committed[j]
    /\ \E i \in 1..Len(committed) :
          \A k \in 1..Len(winners) : winners[k].name # committed[i].name
    /\ results = committed

\* the positions of the results rows of a partition
ResultsRowsOf(combo) ==
    {i \in 1..Len(results) : /\ results[i].session = combo[1]
                             /\ results[i].level = combo[2]
                             /\ results[i].division = combo[3]}

\* C27: rank-based strategy: for every partition and event there are at most as many
\* winner rows as the partition has results rows, also when two records of the
\* batch share name, gym, session, level and division.
C27_WinnerRowsWithinResults ==
    RankBasedBuilt =>
        \A combo \in Partitions : \A event \in EventSet :
            Cardinality(WinnerRowsOf(combo, event)) <= Cardinality(ResultsRowsOf(combo))

----------------------------------------------------------------------------
(* Properties of the division order, checked under SpecDiv *)

\* the leading run of letters of a label, upper-cased
RECURSIVE LeadingWord(_)
LeadingWord(upper) ==
    IF upper = <<>> \/ ~IsUpperChar(Head(upper)) THEN <<>>
    ELSE <<Head(upper)>> \o LeadingWord(Tail(upper))

\* the age band of a label: 1 Child/CH, 2 Youth, 3 Junior/JR, 4 Senior/SR,
\* 5 unclassified
BandOf(label) ==
    LET word == LeadingWord(Upper(Strip(Chars(label))))
    IN  IF word \in {<<"C","H">>, <<"C","H","I","L","D">>} THEN 1
        ELSE IF word = <<"Y","O","U","T","H">> THEN 2
        ELSE IF word \in {<<"J","R">>, <<"J","U","N","I","O","R">>} THEN 3
        ELSE IF word \in {<<"S","R">>, <<"S","E","N","I","O","R">>} THEN 4
        ELSE 5

\* 1..4 for a label that ends in A..D after a space or a period, else 0
LetterOf(label) ==
    LET text == Upper(Strip(Chars(label)))
        n    == Len(text)
    IN  IF n >= 2 /\ text[n - 1] \in {" ", "."} /\ text[n] \in {"A", "B", "C", "D"}
        THEN CHOOSE k \in 1..4 : <<"A", "B", "C", "D">>[k] = text[n]
        ELSE 0

\* a bare abbreviation without letter, of at most 3 characters
BareAbbreviation(label) ==
    /\ LetterOf(label) = 0
    /\ Len(Strip(Chars(label))) <= 3
    /\ LeadingWord(Upper(Strip(Chars(label)))) \in {<<"C","H">>, <<"J","R">>, <<"S","R">>}

\* a bare full word without letter
BareFullWord(label) ==
    Upper(Strip(Chars(label))) \in {<<"C","H","I","L","D">>, <<"Y","O","U","T","H">>,
                                    <<"J","U","N","I","O","R">>, <<"S","E","N","I","O","R">>}

\* the row of table results in which a label occurs first
FirstRow(label) == CHOOSE i \in 1..Len(results) :
    results[i].division = label /\ \A j \in 1..(i - 1) : results[j].division # label

\* C13: in a detected order every label of a lower band comes before every label of
\* a higher band (Child, Youth, Junior/JR, Senior/SR, unclassified); within a band a
\* bare abbreviation comes before every lettered variant, lettered variants are in
\* the order A, B, C, D, and a bare full word comes after every lettered variant.
C13_DivisionOrdering ==
    detected =>
        \A a, b \in DOMAIN division_order :
            /\ BandOf(a) < BandOf(b) => division_order[a] < division_order[b]
            /\ (BandOf(a) = BandOf(b) /\ BandOf(a) <= 4) =>
                  /\ (BareAbbreviation(a) /\ LetterOf(b) > 0)
                        => division_order[a] < division_order[b]
                  /\ (LetterOf(a) > 0 /\ LetterOf(a) < LetterOf(b))
                        => division_order[a] < division_order[b]
                  /\ (LetterOf(a) > 0 /\ BareFullWord(b))
                        => division_order[a] < division_order[b]

\* C13 witness: the rows of the meet carry a bare full word, then a lettered variant
\* of its band, then a label of a lower band, and the detected order reverses them.
C13_Witness ==
    /\ detected
    /\ \E a, b, c \in DOMAIN division_order :
          /\ BareFullWord(a) /\ LetterOf(b) > 0 /\ BandOf(a) = BandOf(b) /\ BandOf(c) < BandOf(b)
          /\ FirstRow(a) < FirstRow(b) /\ FirstRow(b) < FirstRow(c)
          /\ division_order[c] = 1 /\ division_order[b] = 2 /\ division_order[a] = 3

\* C14: a detected order maps the distinct non-empty division labels of the meet
\* one-to-one onto 1..N, a label of a lower score has the lower position, and of two
\* labels of one score the one that comes first in the input has the lower position.
C14_StablePositions ==
    detected =>
        LET labels == {results[i].division : i \in 1..Len(results)} \ {""}
        IN  /\ DOMAIN division_order = labels
            /\ {division_order[d] : d \in labels} = 1..Cardinality(labels)
            /\ \A a, b \in labels :
                  /\ ScoreDivision(Chars(a)) < ScoreDivision(Chars(b))
                        => division_order[a] < division_order[b]
                  /\ (ScoreDivision(Chars(a)) = ScoreDivision(Chars(b)) /\ FirstRow(a) < FirstRow(b))
                        => division_order[a] < division_order[b]

\* C14 witness: two labels of one score come first in the input and a label of a
\* lower score follows; the two keep their order behind the third.
C14_Witness ==
    /\ detected
    /\ \E a, b, c \in DOMAIN division_order :
          /\ a # b /\ ScoreDivision(Chars(a)) = ScoreDivision(Chars(b))
          /\ ScoreDivision(Chars(c)) < ScoreDivision(Chars(a))
          /\ FirstRow(a) < FirstRow(b) /\ FirstRow(b) < FirstRow(c)
          /\ division_order[c] = 1 /\ division_order[a] = 2 /\ division_order[b] = 3

----------------------------------------------------------------------------
(* Properties of the division-order cache and of the store, checked under SpecMeets *)

\* the orderings state_divisions.json holds
CachedOrders == IF state_divisions = None THEN EmptyDict ELSE state_divisions[1]

\* the division labels of table results that are not empty
MeetLabels == {results[i].division : i \in 1..Len(results)} \ {""}

\* C15: an ordering the cache holds for a state stays as it is, and a call of
\* get_division_order for a state the cache holds returns the cached ordering, runs
\* no detection and leaves the cache alone, whatever the labels of the meet are.
C15_CacheHitReturnsCached ==
    [][/\ \A st \in DOMAIN CachedOrders :
             state_divisions' # None /\ st \in DOMAIN state_divisions'[1]
                                     /\ state_divisions'[1][st] = CachedOrders[st]
       /\ (GetDivisionOrder /\ config.state \in DOMAIN CachedOrders) =>
             /\ division_order' = CachedOrders[config.state]
             /\ detected' = FALSE
             /\ state_divisions' = state_divisions]_vars

\* C15 witness: a call returned the ordering cached for the state by an earlier
\* meet; the meet at hand has a label without position and the cached ordering has
\* a label the meet does not have.
C15_Witness ==
    /\ builds = 1 /\ ~detected
    /\ division_order # EmptyDict
    /\ config.state \in DOMAIN CachedOrders
    /\ division_order = CachedOrders[config.state]
    /\ MeetLabels \ DOMAIN division_order # {}
    /\ (DOMAIN division_order) \ MeetLabels # {}

\* C16: after a build_database run, table results holds the rows of the batch of that
\* run and nothing else, and table winners the winner rows computed from them.
C16_RebuiltFromLastRun ==
    builds >= 1 =>
        /\ results = ResultsRows(config, athletes)
        /\ winners = BuildWinners(ResultsRows(config, athletes), config, athletes)

\* C16 witness: a run found rows of an earlier run of the same meet in the store and
\* left the rows and winners of its own, different batch.
C16_Witness ==
    /\ builds = 1
    /\ db_before # <<>>
    /\ \E i \in 1..Len(db_before) :
          /\ db_before[i].meet_name = config.meet_name
          /\ \A j \in 1..Len(results) : results[j] # db_before[i]
    /\ winners # <<>>

\* C26: a build_database run for one meet leaves the results rows the store held
\* for every other meet in place.
C26_OtherMeetsKept ==
    (builds >= 1 /\ raised = "") =>
        \A i \in 1..Len(db_before) :
            db_before[i].meet_name # config.meet_name =>
                \E j \in 1..Len(results) : results[j] = db_before[i]

\* C30: a call of get_division_order for a state the cache does not hold detects
\* the ordering of the meet, returns it and stores it under the state: afterwards
\* the cache holds the returned ordering under the state, and every other state
\* it held, with the ordering it had, and nothing else.
C30_CacheMissStores ==
    [][(GetDivisionOrder /\ config.state \notin DOMAIN CachedOrders) =>
          /\ detected'
          /\ DOMAIN division_order' = MeetLabels
          /\ state_divisions' # None
          /\ DOMAIN state_divisions'[1] = DOMAIN CachedOrders \cup {config.state}
          /\ state_divisions'[1][config.state] = division_order'
          /\ \A st \in DOMAIN CachedOrders :
                state_divisions'[1][st] = CachedOrders[st]]_vars

\* C30 witness: a call detected an ordering for a state while the cache held a
\* different ordering of another state; the cache holds both afterwards.
C30_Witness ==
    /\ detected
    /\ division_order # EmptyDict
    /\ config.state \in DOMAIN CachedOrders
    /\ CachedOrders[config.state] = division_order
    /\ \E st \in DOMAIN CachedOrders :
          /\ st # config.state
          /\ CachedOrders[st] # EmptyDict
          /\ CachedOrders[st] # division_order

\* the band value of a label: 100, 200, 300, 400 by its leading word, else 500
BandValue(label) == BandOf(label) * 100

\* C25: a label that ends in a letter A-D after a space or a period has the score
\* band value + letter offset (A=1, B=2, C=3, D=4), the band value being 500 when
\* no band matches; the score is that of the label alone, whatever other labels
\* the rows of the meet hold.
C25_BandPlusOffset ==
    detected =>
        \A a \in DOMAIN division_order :
            LetterOf(a) > 0 =>
                ScoreDivision(Chars(a)) = BandValue(a) + LetterOf(a)

----------------------------------------------------------------------------
(* Properties of the whole run, checked under SpecPipeline *)

\* the rows of a table as a set (row ids left out)
RowSet(table) == {table[i] : i \in 1..Len(table)}

\* the batch as it was parsed, before normalize rewrote the gyms
ParsedBatch == [i \in 1..Len(athletes) |-> [athletes[i] EXCEPT !.gym = before_gyms[i]]]

\* the tables another run of normalize and build_database on the same parsed batch,
\* alias map and config can leave in a fresh store
OtherRuns ==
    {[results |-> res, winners |-> BuildWinners(res, config, batch)] :
        <<res, batch>> \in
            {<<ResultsRows(config, batch), batch>> :
                batch \in {[i \in 1..Len(athletes) |-> [athletes[i] EXCEPT !.gym = r.gyms[i]]] :
                              r \in NormalizeOutcomes(ParsedBatch, gym_map_file)}}}

\* C17 (as stated): the results rows and the winners rows of a run of normalize and
\* build_database are those of every other run on the same input.
C17_Deterministic ==
    (runs = 1 /\ builds = 1 /\ raised = "") =>
        \A other \in OtherRuns :
            /\ RowSet(other.results) = RowSet(results)
            /\ RowSet(other.winners) = RowSet(winners)

----------------------------------------------------------------------------
(* Properties of the adapters, checked under SpecAdapters *)

\* the file was parsed and the adapter returned a batch
Parsed == handed # None /\ raised = ""

\* the records of the batch, by position
ParsedRecords == 1..Len(athletes)

\* the number a cell denotes, in thousandths: None for null, for true and false
\* and for a text that is empty or not a decimal number
NumericValue(cell) ==
    CASE cell.t = "null" -> None
      [] cell.t = "bool" -> None
      [] cell.t = "num"  -> Some(cell.v)
      [] cell.t = "str"  -> FloatOf(cell.s)

\* the score a cell stands for: its number when that is positive, else absent
ScoreOfCell(cell) ==
    IF NumericValue(cell) # None /\ NumericValue(cell)[1] > 0 THEN NumericValue(cell) ELSE None

\* C22 (as stated): in every adapter the score parsed from a cell is absent exactly
\* when the cell is empty, not numeric or not positive, and is the number of the cell
\* otherwise; parsing does not raise.
C22_ScoreParsing ==
    Parsed =>
        \A k \in ParsedRecords :
            athletes[k][handed[1][k].event] = ScoreOfCell(handed[1][k].score)

\* the rank a cell stands for: the integer of a number cell; for a text, the integer
\* that is left when one trailing T or t is taken away; absent for null, for an empty
\* text and for a text whose remainder is not an integer
RankOfCell(cell) ==
    CASE cell.t = "null" -> None
      [] cell.t = "num"  -> Some(cell.v)
      [] cell.t = "str"  ->
            LET s    == Strip(cell.s)
                body == IF s # <<>> /\ s[Len(s)] \in {"T", "t"}
                        THEN Strip(SubSeq(s, 1, Len(s) - 1)) ELSE s
            IN  IF body # <<>> /\ AllDigits(body) THEN Some(DigitsVal(body)) ELSE None

\* the rows of the data file are JSON objects read by an adapter that parses ranks
RanksParsed ==
    /\ handed # None
    /\ data_file.source \in {"scorecat", "generic"}
    /\ \A i \in 1..Len(data_file.rows) : data_file.rows[i].t = "obj"

\* the rows of the data file a record of the batch was built from
KeptRows == {handed[1][k].row : k \in 1..Len(handed[1])}

\* C23: ScoreCatAdapter and GenericAdapter parse a rank cell to the integer in front
\* of one trailing tie marker, and to an absent rank for null, empty text and text
\* whose remainder is not an integer; the parse does not raise, and whether a row
\* gets a record, and every other field of that record, does not depend on the
\* rank cell.
C23_RankParsing ==
    RanksParsed =>
        /\ raised = ""
        /\ \A k \in ParsedRecords : athletes[k].vault_rank = RankOfCell(handed[1][k].rank)
        /\ \A i, j \in 1..Len(data_file.rows) :
              [data_file.rows[i] EXCEPT !.vtRank = JNull] = [data_file.rows[j] EXCEPT !.vtRank = JNull]
                  => (i \in KeptRows <=> j \in KeptRows)
        /\ \A k, m \in ParsedRecords :
              [data_file.rows[handed[1][k].row] EXCEPT !.vtRank = JNull]
                    = [data_file.rows[handed[1][m].row] EXCEPT !.vtRank = JNull]
                  => [athletes[k] EXCEPT !.vault_rank = None] = [athletes[m] EXCEPT !.vault_rank = None]

\* C23 witness: a batch with a record parsed from the rank "3T", which has rank 3, and
\* a record parsed from the rank "abc", which has no rank and has its vault score.
C23_Witness ==
    /\ RanksParsed /\ raised = ""
    /\ \E k, m \in ParsedRecords :
          /\ handed[1][k].rank = JStr(<<"3","T">>) /\ athletes[k].vault_rank = Some(3)
          /\ handed[1][m].rank = JStr(<<"a","b","c">>) /\ athletes[m].vault_rank = None
          /\ athletes[m].vault = Some(9500) /\ athletes[m].name = athletes[k].name

\* a text that has a character other than whitespace
NotBlank(text) == Strip(text) # <<>>

\* the row carries a name: a JSON object with a name field that is a text and not
\* blank, a TSV line whose first cell is not blank, a PDF cluster with a name text
\* that does not read as a score
HasName(source, row) ==
    CASE source = "scorecat" ->
            /\ row.t = "obj"
            /\ \E field \in {"firstName", "lastName", "fullName"} :
                  row[field].t = "str" /\ NotBlank(row[field].s)
      [] source = "generic"  -> row.t = "obj" /\ row.name.t = "str" /\ NotBlank(row.name.s)
      [] source = "mso_html" -> NotBlank(SplitChar(row, "\t")[1])
      [] source = "mso_pdf"  -> row.name # None /\ FloatOf(row.name[1]) = None

\* C24 (as stated): an adapter returns a batch (it does not raise) in which no record
\* has an empty name, and every row of the file that carries a name has its record.
C24_NamelessDropped ==
    handed # None =>
        /\ raised = ""
        /\ \A k \in ParsedRecords : athletes[k].name # <<>>
        /\ data_file.source # "mso_pdf" =>
              \A i \in 1..Len(data_file.rows) :
                  HasName(data_file.source, data_file.rows[i]) => i \in KeptRows

====
